---- MODULE Spec2Model ----
(***************************************************************************)
(* Sudoku-Lite puzzle engine (utils/sudoku.ts): board predicates, the      *)
(* randomized filler, the strategy-tracking solver, cell removal and the   *)
(* greedy completion.  Boards are functions over 0-based indices, as in    *)
(* the source: board[row][col], 0 = empty.                                 *)
(*                                                                         *)
(* shuffleArray draws a uniformly random permutation, so every order is    *)
(* possible.  A shuffled array that is then consumed element by element is *)
(* modelled by the set of elements not consumed yet, the next element      *)
(* being any member of it.                                                 *)
(***************************************************************************)
EXTENDS Integers, Sequences, FiniteSets, TLC

VARIABLES
    \* inputs and result of a predicate call
    pBoard, pCall, pResult,
    \* where the caller of the engine is; generateBoard's size and board
    phase, size, board,
    \* fillBoard: activations, control point, returned value, last return
    fillStack, fillPc, fillRet, fillExit,
    \* solveWithStrategies: its board, activations, control point, returned
    \* value, last return, and the strategiesUsed accumulator
    solveBoard, solveStack, solvePc, solveRet, solveExit, strategiesUsed,
    \* removeNumbers: its locals, and the board argument as it was at the call
    difficulty, targetEmptyCells, puzzle, cells, removedCells, attempts,
    trial, removePc, removeArg,
    \* completeBoard: its argument, its locals, the number of nested calls
    completeInput, completedBoard, emptyCells, cellIdx, completeDepth,
    \* the board widget's state (its board is widgetBoard here)
    widgetBoard, initialBoard, selectedCell, errors, timer, isRunning,
    \* removeNumbersStrategically: its parameters and the locals that
    \* removeNumbers does not have
    targetStrategies, maxAttempts, targetCellsToRemove, cellAttempts, canRemove

predVars == <<pBoard, pCall, pResult>>
genVars == <<size, board>>
fillVars == <<fillStack, fillPc, fillRet, fillExit>>
solveVars == <<solveBoard, solveStack, solvePc, solveRet, solveExit, strategiesUsed>>
removeVars == <<difficulty, targetEmptyCells, puzzle, cells, removedCells,
                attempts, trial, removePc, removeArg>>
completeVars == <<completeInput, completedBoard, emptyCells, cellIdx,
                  completeDepth>>
widgetVars == <<widgetBoard, initialBoard, selectedCell, errors, timer, isRunning>>
strategicVars == <<targetStrategies, maxAttempts, targetCellsToRemove,
                   cellAttempts, canRemove>>
vars == <<predVars, phase, genVars, fillVars, solveVars, removeVars, completeVars,
          widgetVars, strategicVars>>

----------------------------------------------------------------------------
(* Bounds of the model *)

\* largest board size N handed to generateBoard
MaxSize == 3
\* boards handed to the predicates: at most MaxPureRows rows, at most one
\* column more than rows, cell values 0..MaxPureVal
MaxPureRows == 2
MaxPureVal == 4
\* nested completeBoard calls are counted up to MaxCompleteDepth
MaxCompleteDepth == 5
\* createEmptyBoard is called with the sizes 1..MaxCreateSize
MaxCreateSize == 10
\* getHebrewChar is called with the values -1..MaxLookupValue
MaxLookupValue == 11

\* solveWithStrategies is started on the boards of size 1..MaxSolveSize
MaxSolveSize == 3

\* removeNumbersStrategically is called with its default maxAttempts or
\* with SmallMaxAttempts
SmallMaxAttempts == 2

\* the widget is played with the board sizes 1..MaxPlaySize
MaxPlaySize == 2

\* type BoardSize = 4 | 5 | 6 | 7 | 8 | 9
MinBoardSize == 4

MaxBoardSize == 9

----------------------------------------------------------------------------
(* Board primitive *)

Range(n) == 0 .. (n - 1)

\* board.length
BoardLen(b) == Cardinality(DOMAIN b)

\* mutant of createEmptyBoard: a size outside BoardSize is rejected with an
\* empty array
createEmptyBoardInRange(n) ==
    IF n \in MinBoardSize .. MaxBoardSize
    THEN [i \in Range(n) |-> [j \in Range(n) |-> 0]]
    ELSE <<>>

\* Array(size).fill(0).map(() => Array(size).fill(0))
createEmptyBoard(n) == [i \in Range(n) |-> [j \in Range(n) |-> 0]]

\* board.map(row => [...row]): a value equal to the board, sharing nothing
boardCopy(b) == [i \in DOMAIN b |-> [j \in DOMAIN b[i] |-> b[i][j]]]

\* board[row][col] = v
SetCell(b, row, col, v) == [b EXCEPT ![row][col] = v]

\* mutant of RowScan: the loop starts one index late
RECURSIVE RowScanFromNext(_, _, _, _)
RowScanFromNext(b, row, num, i) ==
    IF i + 1 >= BoardLen(b) THEN TRUE
    ELSE IF b[row][i + 1] = num THEN FALSE
    ELSE RowScanFromNext(b, row, num, i + 1)

\* first loop of isValidPlacement, from index i: FALSE at the first hit
RECURSIVE RowScan(_, _, _, _)
RowScan(b, row, num, i) ==
    IF i >= BoardLen(b) THEN TRUE
    ELSE IF b[row][i] = num THEN FALSE
    ELSE RowScan(b, row, num, i + 1)

\* second loop of isValidPlacement
RECURSIVE ColScan(_, _, _, _)
ColScan(b, col, num, i) ==
    IF i >= BoardLen(b) THEN TRUE
    ELSE IF b[i][col] = num THEN FALSE
    ELSE ColScan(b, col, num, i + 1)

\* mutant of isValidPlacement: the column loop is missing
isValidPlacementRowOnly(b, row, col, num) ==
    IF ~RowScan(b, row, num, 0) THEN FALSE ELSE TRUE

\* mutant of isValidPlacement: the target cell itself is skipped
isValidPlacementOthers(b, row, col, num) ==
    /\ \A j \in Range(BoardLen(b)) : j # col => b[row][j] # num
    /\ \A i \in Range(BoardLen(b)) : i # row => b[i][col] # num

\* mutant of isValidPlacement: the row check is missing
isValidPlacementColOnly(b, row, col, num) ==
    IF ~ColScan(b, col, num, 0) THEN FALSE ELSE TRUE

isValidPlacement(b, row, col, num) ==
    IF ~RowScan(b, row, num, 0) THEN FALSE
    ELSE IF ~ColScan(b, col, num, 0) THEN FALSE
    ELSE TRUE

\* mutant of RowDupScan: the loop runs over the row's own length
RECURSIVE RowDupScanWholeRow(_, _, _, _)
RowDupScanWholeRow(b, i, j, seen) ==
    IF j >= Cardinality(DOMAIN b[i]) THEN FALSE
    ELSE IF b[i][j] # 0
         THEN IF b[i][j] \in seen THEN TRUE
              ELSE RowDupScanWholeRow(b, i, j + 1, seen \cup {b[i][j]})
         ELSE RowDupScanWholeRow(b, i, j + 1, seen)

\* mutant of RowDupScan: the test "board[i][j] !== 0" is missing, so empty
\* cells count as values
RECURSIVE RowDupScanCountsZero(_, _, _, _)
RowDupScanCountsZero(b, i, j, seen) ==
    IF j >= BoardLen(b) THEN FALSE
    ELSE IF b[i][j] \in seen THEN TRUE
    ELSE RowDupScanCountsZero(b, i, j + 1, seen \cup {b[i][j]})

\* inner loop of "Check rows": seen is the Set<number> built so far
RECURSIVE RowDupScan(_, _, _, _)
RowDupScan(b, i, j, seen) ==
    IF j >= BoardLen(b) THEN FALSE
    ELSE IF b[i][j] # 0
         THEN IF b[i][j] \in seen THEN TRUE
              ELSE RowDupScan(b, i, j + 1, seen \cup {b[i][j]})
         ELSE RowDupScan(b, i, j + 1, seen)

\* inner loop of "Check columns"
RECURSIVE ColDupScan(_, _, _, _)
ColDupScan(b, j, i, seen) ==
    IF i >= BoardLen(b) THEN FALSE
    ELSE IF b[i][j] # 0
         THEN IF b[i][j] \in seen THEN TRUE
              ELSE ColDupScan(b, j, i + 1, seen \cup {b[i][j]})
         ELSE ColDupScan(b, j, i + 1, seen)

RECURSIVE RowsOk(_, _)
RowsOk(b, i) ==
    IF i >= BoardLen(b) THEN TRUE
    ELSE IF RowDupScan(b, i, 0, {}) THEN FALSE
    ELSE RowsOk(b, i + 1)

RECURSIVE ColsOk(_, _)
ColsOk(b, j) ==
    IF j >= BoardLen(b) THEN TRUE
    ELSE IF ColDupScan(b, j, 0, {}) THEN FALSE
    ELSE ColsOk(b, j + 1)

\* mutant of isBoardValid: the column check is missing
isBoardValidRowsOnly(b) ==
    IF ~RowsOk(b, 0) THEN FALSE ELSE TRUE

isBoardValid(b) ==
    IF ~RowsOk(b, 0) THEN FALSE
    ELSE IF ~ColsOk(b, 0) THEN FALSE
    ELSE TRUE

\* row-major scan for the first 0; <<>> stands for null
RECURSIVE FindFrom(_, _, _)
FindFrom(b, i, j) ==
    IF i >= BoardLen(b) THEN <<>>
    ELSE IF j >= BoardLen(b) THEN FindFrom(b, i + 1, 0)
    ELSE IF b[i][j] = 0 THEN <<i, j>>
    ELSE FindFrom(b, i, j + 1)

findEmptyCell(b) == FindFrom(b, 0, 0)

----------------------------------------------------------------------------
(* The predicates applied to boards drawn from bounded sets *)

Grids(rows, cols, vals) == [Range(rows) -> [Range(cols) -> vals]]

\* N = 6, row 0 = [1,2,3,4,5,6], rest empty (the uniqueness test's board)
ScenarioBoard ==
    [i \in Range(6) |-> [j \in Range(6) |-> IF i = 0 THEN j + 1 ELSE 0]]

PureBoards(maxRows, maxVal) ==
    UNION {Grids(r, r, 0 .. maxVal) \cup Grids(r, r + 1, 0 .. maxVal) :
             r \in 0 .. maxRows}
    \cup {ScenarioBoard}

NoCall == [fn |-> "none"]

IsSquare(b) == \A i \in DOMAIN b : Cardinality(DOMAIN b[i]) = BoardLen(b)

PredInit ==
    /\ pBoard \in PureBoards(MaxPureRows, MaxPureVal)
    /\ pCall = NoCall
    /\ pResult = FALSE

\* a caller evaluates isValidPlacement(board, row, col, num) on a square board
CallIsValidPlacement ==
    /\ pCall = NoCall
    /\ IsSquare(pBoard)
    /\ \E row \in DOMAIN pBoard, col \in DOMAIN pBoard, num \in 1 .. BoardLen(pBoard) :
          /\ pCall' = [fn |-> "isValidPlacement", row |-> row, col |-> col, num |-> num]
          /\ pResult' = isValidPlacement(pBoard, row, col, num)
    /\ UNCHANGED pBoard

\* a caller evaluates isBoardValid(board)
CallIsBoardValid ==
    /\ pCall = NoCall
    /\ pCall' = [fn |-> "isBoardValid"]
    /\ pResult' = isBoardValid(pBoard)
    /\ UNCHANGED pBoard

\* a caller clears a cell, "board[row][col] = 0", and evaluates isBoardValid
\* on the updated board (the test 'maintains validity during cell updates');
\* pCall.updated is the board after the write
CallClearCell ==
    /\ pCall = NoCall
    /\ \E row \in DOMAIN pBoard :
          \E col \in DOMAIN pBoard[row] :
             /\ pCall' = [fn |-> "clearCell", row |-> row, col |-> col,
                          updated |-> SetCell(pBoard, row, col, 0)]
             /\ pResult' = isBoardValid(SetCell(pBoard, row, col, 0))
    /\ UNCHANGED pBoard


----------------------------------------------------------------------------
(* generateBoard and fillBoard *)

NoBoard == createEmptyBoard(0)

NoExit == [result |-> TRUE, entry |-> NoBoard, placed |-> FALSE]

Top(stack) == stack[Len(stack)]

Pop(stack) == SubSeq(stack, 1, Len(stack) - 1)

SetTop(stack, frame) == [stack EXCEPT ![Len(stack)] = frame]

\* const board = createEmptyBoard(size); fillBoard(board)
GenerateBoard ==
    /\ phase = "idle"
    /\ \E n \in 1 .. MaxSize :
          /\ size' = n
          /\ board' = createEmptyBoard(n)
    /\ phase' = "filling"
    /\ fillStack' = <<>>
    /\ fillPc' = "call"
    /\ UNCHANGED <<fillRet, fillExit, predVars, widgetVars, strategicVars, solveVars, removeVars, completeVars>>

\* entry of fillBoard: findEmptyCell, then nums = [1..size] shuffled.
\* entry and placed are bookkeeping of the activation: the board as it was
\* handed in, and whether the activation has written a cell.
FillCall ==
    /\ phase = "filling"
    /\ fillPc = "call"
    /\ LET emptyCell == findEmptyCell(board) IN
         IF emptyCell = <<>>
         THEN /\ fillRet' = TRUE
              /\ fillPc' = "ret"
              /\ fillExit' = [result |-> TRUE, entry |-> board, placed |-> FALSE]
              /\ UNCHANGED fillStack
         ELSE /\ fillStack' = Append(fillStack,
                    [row |-> emptyCell[1], col |-> emptyCell[2],
                     nums |-> 1 .. BoardLen(board),
                     entry |-> board, placed |-> FALSE])
              /\ fillPc' = "loop"
              /\ UNCHANGED <<fillRet, fillExit>>
    /\ UNCHANGED <<phase, size, board, predVars, widgetVars, strategicVars, solveVars, removeVars, completeVars>>

\* one iteration of "for (const num of nums)": the next shuffled number
FillNext ==
    /\ phase = "filling"
    /\ fillPc = "loop"
    /\ Top(fillStack).nums # {}
    /\ LET f == Top(fillStack) IN
         \E num \in f.nums :
            IF isValidPlacement(board, f.row, f.col, num)
            THEN /\ board' = SetCell(board, f.row, f.col, num)
                 /\ fillStack' = SetTop(fillStack,
                        [f EXCEPT !.nums = f.nums \ {num}, !.placed = TRUE])
                 /\ fillPc' = "call"
            ELSE /\ fillStack' = SetTop(fillStack, [f EXCEPT !.nums = f.nums \ {num}])
                 /\ UNCHANGED <<board, fillPc>>
    /\ UNCHANGED <<phase, size, fillRet, fillExit, predVars, widgetVars, strategicVars, solveVars, removeVars, completeVars>>

\* the loop is over: return false
FillExhausted ==
    /\ phase = "filling"
    /\ fillPc = "loop"
    /\ Top(fillStack).nums = {}
    /\ fillRet' = FALSE
    /\ fillExit' = [result |-> FALSE, entry |-> Top(fillStack).entry,
                    placed |-> Top(fillStack).placed]
    /\ fillStack' = Pop(fillStack)
    /\ fillPc' = "ret"
    /\ UNCHANGED <<phase, size, board, predVars, widgetVars, strategicVars, solveVars, removeVars, completeVars>>

\* the recursive call came back: "if (fillBoard(board)) return true;
\* board[row][col] = 0"
FillResume ==
    /\ phase = "filling"
    /\ fillPc = "ret"
    /\ fillStack # <<>>
    /\ LET f == Top(fillStack) IN
         IF fillRet
         THEN /\ fillExit' = [result |-> TRUE, entry |-> f.entry, placed |-> f.placed]
              /\ fillStack' = Pop(fillStack)
              /\ UNCHANGED <<board, fillPc>>
         ELSE /\ board' = SetCell(board, f.row, f.col, 0)
              /\ fillPc' = "loop"
              /\ UNCHANGED <<fillStack, fillExit>>
    /\ UNCHANGED <<phase, size, fillRet, predVars, widgetVars, strategicVars, solveVars, removeVars, completeVars>>

\* fillBoard's outermost activation came back: generateBoard returns board,
\* whatever fillBoard returned
GenerateReturn ==
    /\ phase = "filling"
    /\ fillPc = "ret"
    /\ fillStack = <<>>
    /\ phase' = "generated"
    /\ fillPc' = "idle"
    /\ fillExit' = NoExit
    /\ UNCHANGED <<size, board, fillStack, fillRet, predVars, widgetVars, strategicVars, solveVars, removeVars, completeVars>>

----------------------------------------------------------------------------
(* solveWithStrategies *)

\* mutant of CandidatesFrom: the scan stops at the first valid number, so
\* the search has no second candidate to fall back on
RECURSIVE CandidatesFirstOnly(_, _, _, _)
CandidatesFirstOnly(b, row, col, num) ==
    IF num > BoardLen(b) THEN <<>>
    ELSE IF isValidPlacement(b, row, col, num) THEN <<num>>
    ELSE CandidatesFirstOnly(b, row, col, num + 1)

\* "for (let num = 1; num <= board.length; num++) if (isValidPlacement(...))
\* candidates.push(num)", from num on
RECURSIVE CandidatesFrom(_, _, _, _)
CandidatesFrom(b, row, col, num) ==
    IF num > BoardLen(b) THEN <<>>
    ELSE IF isValidPlacement(b, row, col, num)
         THEN <<num>> \o CandidatesFrom(b, row, col, num + 1)
         ELSE CandidatesFrom(b, row, col, num + 1)

\* mutant of Track: three candidates or more count as 'Advanced'
TrackAdvanced(used, cands) ==
    IF Len(cands) = 1 THEN used \cup {"Naked Single"}
    ELSE IF Len(cands) > 2 THEN used \cup {"Advanced"}
    ELSE IF Len(cands) > 1 THEN used \cup {"Backtracking"}
    ELSE used

\* the "Track strategies" step
Track(used, cands) ==
    IF Len(cands) = 1 THEN used \cup {"Naked Single"}
    ELSE IF Len(cands) > 1 THEN used \cup {"Backtracking"}
    ELSE used

\* entry of solveWithStrategies: findEmptyCell, the candidates, the tag
SolveCall ==
    /\ solvePc = "call"
    /\ LET emptyCell == findEmptyCell(solveBoard) IN
         IF emptyCell = <<>>
         THEN /\ solveRet' = TRUE
              /\ solvePc' = "ret"
              /\ solveExit' = [result |-> TRUE, entry |-> solveBoard, placed |-> FALSE]
              /\ UNCHANGED <<solveStack, strategiesUsed>>
         ELSE LET cands == CandidatesFrom(solveBoard, emptyCell[1], emptyCell[2], 1) IN
              /\ strategiesUsed' = Track(strategiesUsed, cands)
              /\ solveStack' = Append(solveStack,
                    [row |-> emptyCell[1], col |-> emptyCell[2],
                     candidates |-> cands, next |-> 1,
                     entry |-> solveBoard, placed |-> FALSE])
              /\ solvePc' = "loop"
              /\ UNCHANGED <<solveRet, solveExit>>
    /\ UNCHANGED <<solveBoard, phase, genVars, predVars, widgetVars, strategicVars, fillVars, removeVars, completeVars>>

\* one iteration of "for (const num of candidates)": place it and recurse
SolveNext ==
    /\ solvePc = "loop"
    /\ LET f == Top(solveStack) IN
         /\ f.next <= Len(f.candidates)
         /\ solveBoard' = SetCell(solveBoard, f.row, f.col, f.candidates[f.next])
         /\ solveStack' = SetTop(solveStack,
                [f EXCEPT !.next = f.next + 1, !.placed = TRUE])
    /\ solvePc' = "call"
    /\ UNCHANGED <<solveRet, solveExit, strategiesUsed, phase, genVars, predVars, widgetVars, strategicVars,
                   fillVars, removeVars, completeVars>>

\* the loop is over: return false
SolveExhausted ==
    /\ solvePc = "loop"
    /\ Top(solveStack).next > Len(Top(solveStack).candidates)
    /\ solveRet' = FALSE
    /\ solveExit' = [result |-> FALSE, entry |-> Top(solveStack).entry,
                     placed |-> Top(solveStack).placed]
    /\ solveStack' = Pop(solveStack)
    /\ solvePc' = "ret"
    /\ UNCHANGED <<solveBoard, strategiesUsed, phase, genVars, predVars, widgetVars, strategicVars,
                   fillVars, removeVars, completeVars>>

\* mutant of SolveResume: the backtracking reset "board[row][col] = 0" is
\* missing
SolveResumeNoReset ==
    /\ solvePc = "ret"
    /\ solveStack # <<>>
    /\ LET f == Top(solveStack) IN
         IF solveRet
         THEN /\ solveExit' = [result |-> TRUE, entry |-> f.entry, placed |-> f.placed]
              /\ solveStack' = Pop(solveStack)
              /\ UNCHANGED solvePc
         ELSE /\ solvePc' = "loop"
              /\ UNCHANGED <<solveStack, solveExit>>
    /\ UNCHANGED <<solveBoard, solveRet, strategiesUsed, phase, genVars, predVars, widgetVars, strategicVars,
                   fillVars, removeVars, completeVars>>

\* mutant of SolveResume: undoing a placement also empties the accumulator
SolveResumeClearsTags ==
    /\ solvePc = "ret"
    /\ solveStack # <<>>
    /\ LET f == Top(solveStack) IN
         IF solveRet
         THEN /\ solveExit' = [result |-> TRUE, entry |-> f.entry, placed |-> f.placed]
              /\ solveStack' = Pop(solveStack)
              /\ UNCHANGED <<solveBoard, solvePc, strategiesUsed>>
         ELSE /\ solveBoard' = SetCell(solveBoard, f.row, f.col, 0)
              /\ strategiesUsed' = {}
              /\ solvePc' = "loop"
              /\ UNCHANGED <<solveStack, solveExit>>
    /\ UNCHANGED <<solveRet, phase, genVars, predVars, widgetVars, strategicVars,
                   fillVars, removeVars, completeVars>>

\* the recursive call came back: "if (solveWithStrategies(...)) return true;
\* board[row][col] = 0"
SolveResume ==
    /\ solvePc = "ret"
    /\ solveStack # <<>>
    /\ LET f == Top(solveStack) IN
         IF solveRet
         THEN /\ solveExit' = [result |-> TRUE, entry |-> f.entry, placed |-> f.placed]
              /\ solveStack' = Pop(solveStack)
              /\ UNCHANGED <<solveBoard, solvePc>>
         ELSE /\ solveBoard' = SetCell(solveBoard, f.row, f.col, 0)
              /\ solvePc' = "loop"
              /\ UNCHANGED <<solveStack, solveExit>>
    /\ UNCHANGED <<solveRet, strategiesUsed, phase, genVars, predVars, widgetVars, strategicVars,
                   fillVars, removeVars, completeVars>>

----------------------------------------------------------------------------
(* removeNumbers *)

Difficulties == {"easy", "medium", "hard"}

\* a value outside the Difficulty type, as in the test 'handles invalid
\* difficulty levels'
InvalidDifficulty == "invalid"

\* Math.floor(totalCells * 0.4), * 0.6, * 0.75: for totalCells <= 81 the
\* double product floors to the same integer as the exact product
Floor40(totalCells) == (totalCells * 4) \div 10

Floor60(totalCells) == (totalCells * 6) \div 10

Floor75(totalCells) == (totalCells * 3) \div 4

\* mutant of TargetEmptyCells: the switch has no default branch that sets
\* the easy target
TargetEmptyCellsNoDefault(totalCells, d) ==
    CASE d = "easy" -> Floor40(totalCells)
      [] d = "medium" -> Floor60(totalCells)
      [] d = "hard" -> Floor75(totalCells)
      [] OTHER -> 0

\* the switch on difficulty
TargetEmptyCells(totalCells, d) ==
    CASE d = "easy" -> Floor40(totalCells)
      [] d = "medium" -> Floor60(totalCells)
      [] d = "hard" -> Floor75(totalCells)
      [] OTHER -> Floor40(totalCells)

\* "for i, for j: cells.push([i, j])"
AllCells(n) == {<<i, j>> : i \in Range(n), j \in Range(n)}

NoTrial == [row |-> 0, col |-> 0, backup |-> 0]

\* removeNumbers(board, difficulty) up to the loop
RemoveNumbers ==
    /\ phase = "generated"
    /\ \E d \in Difficulties \cup {InvalidDifficulty} :
          /\ difficulty' = d
          /\ targetEmptyCells' = TargetEmptyCells(BoardLen(board) * BoardLen(board), d)
    /\ puzzle' = boardCopy(board)
    /\ cells' = AllCells(BoardLen(board))
    /\ removedCells' = 0
    /\ attempts' = 0
    /\ removeArg' = board
    /\ removePc' = "loop"
    /\ phase' = "removing"
    /\ UNCHANGED <<trial, genVars, predVars, widgetVars, strategicVars, fillVars, solveVars, completeVars>>

\* mutant of RemoveLoopCond: <= for < on the number of removed cells
RemoveLoopCondInclusive ==
    /\ removedCells <= targetEmptyCells
    /\ cells # {}
    /\ attempts < BoardLen(board) * BoardLen(board) * 2

\* the while condition
RemoveLoopCond ==
    /\ removedCells < targetEmptyCells
    /\ cells # {}
    /\ attempts < BoardLen(board) * BoardLen(board) * 2

\* mutant of RemoveTrial: puzzle is the argument itself, not a copy of it,
\* so clearing a cell clears it in the caller's board
RemoveTrialNoCopy ==
    /\ phase = "removing"
    /\ removePc = "loop"
    /\ RemoveLoopCond
    /\ \E cell \in cells :
          /\ cells' = cells \ {cell}
          /\ trial' = [row |-> cell[1], col |-> cell[2],
                       backup |-> puzzle[cell[1]][cell[2]]]
          /\ puzzle' = SetCell(puzzle, cell[1], cell[2], 0)
          /\ board' = SetCell(puzzle, cell[1], cell[2], 0)
          /\ solveBoard' = boardCopy(SetCell(puzzle, cell[1], cell[2], 0))
    /\ strategiesUsed' = {}
    /\ solveStack' = <<>>
    /\ solvePc' = "call"
    /\ removePc' = "solve"
    /\ UNCHANGED <<solveRet, solveExit, difficulty, targetEmptyCells, removedCells,
                   attempts, removeArg, phase, size, predVars, widgetVars, strategicVars, fillVars,
                   completeVars>>

\* mutant of RemoveTrial: the cell is read from the end of the list but not
\* popped, so it can be trialled again
RemoveTrialNoPop ==
    /\ phase = "removing"
    /\ removePc = "loop"
    /\ RemoveLoopCond
    /\ \E cell \in cells :
          /\ cells' = cells
          /\ trial' = [row |-> cell[1], col |-> cell[2],
                       backup |-> puzzle[cell[1]][cell[2]]]
          /\ puzzle' = SetCell(puzzle, cell[1], cell[2], 0)
          /\ solveBoard' = boardCopy(SetCell(puzzle, cell[1], cell[2], 0))
    /\ strategiesUsed' = {}
    /\ solveStack' = <<>>
    /\ solvePc' = "call"
    /\ removePc' = "solve"
    /\ UNCHANGED <<solveRet, solveExit, difficulty, targetEmptyCells, removedCells,
                   attempts, removeArg, phase, genVars, predVars, widgetVars, strategicVars, fillVars,
                   completeVars>>

\* loop body up to the solver call: pop a shuffled cell, clear it, solve a copy
RemoveTrial ==
    /\ phase = "removing"
    /\ removePc = "loop"
    /\ RemoveLoopCond
    /\ \E cell \in cells :
          /\ cells' = cells \ {cell}
          /\ trial' = [row |-> cell[1], col |-> cell[2],
                       backup |-> puzzle[cell[1]][cell[2]]]
          /\ puzzle' = SetCell(puzzle, cell[1], cell[2], 0)
          /\ solveBoard' = boardCopy(SetCell(puzzle, cell[1], cell[2], 0))
    /\ strategiesUsed' = {}
    /\ solveStack' = <<>>
    /\ solvePc' = "call"
    /\ removePc' = "solve"
    /\ UNCHANGED <<solveRet, solveExit, difficulty, targetEmptyCells, removedCells,
                   attempts, removeArg, phase, genVars, predVars, widgetVars, strategicVars, fillVars,
                   completeVars>>

\* mutant of RemoveCheck: the test on the solver's result is inverted
RemoveCheckInverted ==
    /\ phase = "removing"
    /\ removePc = "solve"
    /\ solvePc = "ret"
    /\ solveStack = <<>>
    /\ IF ~solveRet
       THEN /\ removedCells' = removedCells + 1
            /\ UNCHANGED puzzle
       ELSE /\ puzzle' = SetCell(puzzle, trial.row, trial.col, trial.backup)
            /\ UNCHANGED removedCells
    /\ attempts' = attempts + 1
    /\ removePc' = "loop"
    /\ solvePc' = "idle"
    /\ trial' = NoTrial
    /\ solveBoard' = NoBoard
    /\ solveExit' = NoExit
    /\ strategiesUsed' = {}
    /\ UNCHANGED <<solveStack, solveRet, difficulty, targetEmptyCells, cells,
                   removeArg, phase, genVars, predVars, widgetVars, strategicVars, fillVars, completeVars>>

\* the solver came back: keep the removal or restore the cell; attempts++.
\* The iteration's locals (row, col, backup, puzzleCopy, the Set) end here.
RemoveCheck ==
    /\ phase = "removing"
    /\ removePc = "solve"
    /\ solvePc = "ret"
    /\ solveStack = <<>>
    /\ IF solveRet
       THEN /\ removedCells' = removedCells + 1
            /\ UNCHANGED puzzle
       ELSE /\ puzzle' = SetCell(puzzle, trial.row, trial.col, trial.backup)
            /\ UNCHANGED removedCells
    /\ attempts' = attempts + 1
    /\ removePc' = "loop"
    /\ solvePc' = "idle"
    /\ trial' = NoTrial
    /\ solveBoard' = NoBoard
    /\ solveExit' = NoExit
    /\ strategiesUsed' = {}
    /\ UNCHANGED <<solveStack, solveRet, difficulty, targetEmptyCells, cells,
                   removeArg, phase, genVars, predVars, widgetVars, strategicVars, fillVars, completeVars>>

\* the while condition fails: return puzzle (the cells list ends here)
RemoveReturn ==
    /\ phase = "removing"
    /\ removePc = "loop"
    /\ ~RemoveLoopCond
    /\ removePc' = "idle"
    /\ cells' = {}
    /\ phase' = "removed"
    /\ UNCHANGED <<difficulty, targetEmptyCells, puzzle, removedCells,
                   attempts, trial, removeArg, genVars, predVars, widgetVars, strategicVars, fillVars,
                   solveVars, completeVars>>

----------------------------------------------------------------------------
(* removeNumbersStrategically *)

\* type Strategy
Strategies == {"Naked Single", "Backtracking", "Advanced"}

getStrategySet(d) ==
    IF d = "easy" THEN {"Naked Single"}
    ELSE IF d = "medium" THEN {"Naked Single", "Backtracking"}
    ELSE {"Naked Single", "Backtracking", "Advanced"}

\* the switch has no default: <<n>> is the number n, <<>> is undefined
getTargetCellsToRemove(n, d) ==
    CASE d = "easy" -> <<Floor40(n * n)>>
      [] d = "medium" -> <<Floor60(n * n)>>
      [] d = "hard" -> <<Floor75(n * n)>>
      [] OTHER -> <<>>

\* the parameter default "maxAttempts = 60"
DefaultMaxAttempts == 60

maxAttemptsPerCell == 3

\* solveWithStrategies(b, used) as a function of its arguments: the value
\* returned, the board and the accumulator as the call leaves them.
\* SolveRun is the body up to the loop, TryFrom the loop from the k-th
\* candidate on.
RECURSIVE SolveRun(_, _)
RECURSIVE TryFrom(_, _, _, _, _, _)
TryFrom(b, row, col, cands, k, used) ==
    IF k > Len(cands) THEN [result |-> FALSE, board |-> b, used |-> used]
    ELSE LET r == SolveRun(SetCell(b, row, col, cands[k]), used) IN
         IF r.result THEN r
         ELSE TryFrom(SetCell(r.board, row, col, 0), row, col, cands, k + 1, r.used)

SolveRun(b, used) ==
    LET emptyCell == findEmptyCell(b) IN
    IF emptyCell = <<>> THEN [result |-> TRUE, board |-> b, used |-> used]
    ELSE LET cands == CandidatesFrom(b, emptyCell[1], emptyCell[2], 1) IN
         TryFrom(b, emptyCell[1], emptyCell[2], cands, 1, Track(used, cands))

\* removeNumbersStrategically(fullBoard, targetStrategies, difficulty,
\* maxAttempts) up to the loop, on a board generateBoard returned
RemoveNumbersStrategically ==
    /\ phase = "generated"
    /\ \E ts \in SUBSET Strategies, d \in Difficulties \cup {InvalidDifficulty},
          ma \in {DefaultMaxAttempts, SmallMaxAttempts} :
          /\ targetStrategies' = ts
          /\ difficulty' = d
          /\ maxAttempts' = ma
          /\ targetCellsToRemove' = getTargetCellsToRemove(BoardLen(board), d)
    /\ puzzle' = boardCopy(board)
    /\ cells' = AllCells(BoardLen(board))
    /\ removedCells' = 0
    /\ attempts' = 0
    /\ removeArg' = board
    /\ removePc' = "loop"
    /\ phase' = "strategic"
    /\ UNCHANGED <<targetEmptyCells, trial, cellAttempts, canRemove, genVars, predVars,
                   widgetVars, fillVars, solveVars, completeVars>>

\* mutant of StrategicLoopCond: <= for < on the number of attempts
StrategicLoopCondInclusive ==
    /\ targetCellsToRemove # <<>>
    /\ removedCells < targetCellsToRemove[1]
    /\ cells # {}
    /\ attempts <= maxAttempts

\* the outer while condition; a comparison with undefined is false
StrategicLoopCond ==
    /\ targetCellsToRemove # <<>>
    /\ removedCells < targetCellsToRemove[1]
    /\ cells # {}
    /\ attempts < maxAttempts

\* outer loop body up to the inner loop: pop a shuffled cell, clear it, a
\* new Set and a copy of the puzzle (solveBoard is puzzleCopy)
StrategicTrial ==
    /\ phase = "strategic"
    /\ removePc = "loop"
    /\ StrategicLoopCond
    /\ \E cell \in cells :
          /\ cells' = cells \ {cell}
          /\ trial' = [row |-> cell[1], col |-> cell[2],
                       backup |-> puzzle[cell[1]][cell[2]]]
          /\ puzzle' = SetCell(puzzle, cell[1], cell[2], 0)
          /\ solveBoard' = boardCopy(SetCell(puzzle, cell[1], cell[2], 0))
    /\ strategiesUsed' = {}
    /\ cellAttempts' = 0
    /\ canRemove' = FALSE
    /\ removePc' = "attempt"
    /\ UNCHANGED <<solveStack, solvePc, solveRet, solveExit, difficulty,
                   targetEmptyCells, removedCells, attempts, removeArg,
                   targetStrategies, maxAttempts, targetCellsToRemove, phase,
                   genVars, predVars, widgetVars, fillVars, completeVars>>

\* mutant of StrategicAttempt: every attempt has a new accumulator
StrategicAttemptFreshSet ==
    /\ phase = "strategic"
    /\ removePc = "attempt"
    /\ \E r \in {SolveRun(solveBoard, {})} :
         /\ solveBoard' = r.board
         /\ strategiesUsed' = r.used
         /\ solveRet' = r.result
         /\ IF r.result /\ r.used \subseteq targetStrategies
            THEN /\ canRemove' = TRUE
                 /\ removePc' = "decide"
                 /\ UNCHANGED cellAttempts
            ELSE /\ cellAttempts' = cellAttempts + 1
                 /\ removePc' = IF cellAttempts + 1 < maxAttemptsPerCell
                                 THEN "attempt" ELSE "decide"
                 /\ UNCHANGED canRemove
    /\ UNCHANGED <<solveStack, solvePc, solveExit, difficulty, targetEmptyCells,
                   puzzle, cells, removedCells, attempts, trial, removeArg,
                   targetStrategies, maxAttempts, targetCellsToRemove, phase,
                   genVars, predVars, widgetVars, fillVars, completeVars>>

\* one iteration of "while (cellAttempts < maxAttemptsPerCell)": the solver
\* runs on puzzleCopy with the iteration's accumulator, both as the
\* previous attempt left them
StrategicAttempt ==
    /\ phase = "strategic"
    /\ removePc = "attempt"
    /\ \E r \in {SolveRun(solveBoard, strategiesUsed)} :
         /\ solveBoard' = r.board
         /\ strategiesUsed' = r.used
         /\ solveRet' = r.result
         /\ IF r.result /\ r.used \subseteq targetStrategies
            THEN /\ canRemove' = TRUE
                 /\ removePc' = "decide"
                 /\ UNCHANGED cellAttempts
            ELSE /\ cellAttempts' = cellAttempts + 1
                 /\ removePc' = IF cellAttempts + 1 < maxAttemptsPerCell
                                 THEN "attempt" ELSE "decide"
                 /\ UNCHANGED canRemove
    /\ UNCHANGED <<solveStack, solvePc, solveExit, difficulty, targetEmptyCells,
                   puzzle, cells, removedCells, attempts, trial, removeArg,
                   targetStrategies, maxAttempts, targetCellsToRemove, phase,
                   genVars, predVars, widgetVars, fillVars, completeVars>>

\* mutant of StrategicDecide: a rejected removal is not restored
StrategicDecideNoRestore ==
    /\ phase = "strategic"
    /\ removePc = "decide"
    /\ IF ~canRemove
       THEN UNCHANGED <<puzzle, removedCells>>
       ELSE /\ removedCells' = removedCells + 1
            /\ UNCHANGED puzzle
    /\ attempts' = attempts + 1
    /\ removePc' = "loop"
    /\ trial' = NoTrial
    /\ solveBoard' = NoBoard
    /\ strategiesUsed' = {}
    /\ solveRet' = FALSE
    /\ cellAttempts' = 0
    /\ canRemove' = FALSE
    /\ UNCHANGED <<solveStack, solvePc, solveExit, difficulty, targetEmptyCells,
                   cells, removeArg, targetStrategies, maxAttempts,
                   targetCellsToRemove, phase, genVars, predVars, widgetVars,
                   fillVars, completeVars>>

\* after the inner loop: restore the cell or count the removal; attempts++.
\* The iteration's locals end here.
StrategicDecide ==
    /\ phase = "strategic"
    /\ removePc = "decide"
    /\ IF ~canRemove
       THEN /\ puzzle' = SetCell(puzzle, trial.row, trial.col, trial.backup)
            /\ UNCHANGED removedCells
       ELSE /\ removedCells' = removedCells + 1
            /\ UNCHANGED puzzle
    /\ attempts' = attempts + 1
    /\ removePc' = "loop"
    /\ trial' = NoTrial
    /\ solveBoard' = NoBoard
    /\ strategiesUsed' = {}
    /\ solveRet' = FALSE
    /\ cellAttempts' = 0
    /\ canRemove' = FALSE
    /\ UNCHANGED <<solveStack, solvePc, solveExit, difficulty, targetEmptyCells,
                   cells, removeArg, targetStrategies, maxAttempts,
                   targetCellsToRemove, phase, genVars, predVars, widgetVars,
                   fillVars, completeVars>>

\* the outer while condition fails: return puzzle
StrategicReturn ==
    /\ phase = "strategic"
    /\ removePc = "loop"
    /\ ~StrategicLoopCond
    /\ removePc' = "idle"
    /\ phase' = "strategicRemoved"
    /\ UNCHANGED <<difficulty, targetEmptyCells, puzzle, cells, removedCells,
                   attempts, trial, removeArg, strategicVars, genVars, predVars,
                   widgetVars, fillVars, solveVars, completeVars>>

----------------------------------------------------------------------------
(* completeBoard *)

\* "Find all empty cells": row-major list of the cells holding 0
RECURSIVE EmptyCellsFrom(_, _, _)
EmptyCellsFrom(b, i, j) ==
    IF i >= BoardLen(b) THEN <<>>
    ELSE IF j >= BoardLen(b) THEN EmptyCellsFrom(b, i + 1, 0)
    ELSE IF b[i][j] = 0 THEN <<(<<i, j>>)>> \o EmptyCellsFrom(b, i, j + 1)
    ELSE EmptyCellsFrom(b, i, j + 1)

Min(a, b) == IF a < b THEN a ELSE b

\* mutant of ValidNumbers: a number is accepted when the row does not hold
\* it, the column is not looked at
ValidNumbersRowOnly(b, row, col) ==
    {num \in 1 .. BoardLen(b) : \A j \in Range(BoardLen(b)) : b[row][j] # num}

\* the numbers of 1..size that isValidPlacement accepts at (row, col)
ValidNumbers(b, row, col) ==
    {num \in 1 .. BoardLen(b) : isValidPlacement(b, row, col, num)}

\* completeBoard(puzzle): the copy and the list of empty cells
CompleteBoard ==
    /\ phase = "removed"
    /\ completeInput' = puzzle
    /\ completedBoard' = boardCopy(puzzle)
    /\ emptyCells' = EmptyCellsFrom(boardCopy(puzzle), 0, 0)
    /\ cellIdx' = 1
    /\ completeDepth' = 1
    /\ phase' = "completing"
    /\ UNCHANGED <<genVars, predVars, widgetVars, strategicVars, fillVars, solveVars, removeVars>>

\* mutant of CompleteCell: completedBoard is the argument itself, not a copy
\* of it, so a placement is written into the caller's board
CompleteCellInPlace ==
    /\ phase = "completing"
    /\ cellIdx <= Len(emptyCells)
    /\ LET row == emptyCells[cellIdx][1]
           col == emptyCells[cellIdx][2] IN
         \E num \in ValidNumbers(completedBoard, row, col) :
            /\ completedBoard' = SetCell(completedBoard, row, col, num)
            /\ completeInput' = SetCell(completedBoard, row, col, num)
    /\ cellIdx' = cellIdx + 1
    /\ UNCHANGED <<emptyCells, completeDepth, phase, genVars,
                   predVars, widgetVars, strategicVars, fillVars, solveVars, removeVars>>

\* one iteration of "for (const [row, col] of emptyCells)" that fills the
\* cell: the candidates are shuffled and the first one isValidPlacement
\* accepts is placed, so any accepted number may be the one placed
CompleteCell ==
    /\ phase = "completing"
    /\ cellIdx <= Len(emptyCells)
    /\ LET row == emptyCells[cellIdx][1]
           col == emptyCells[cellIdx][2] IN
         \E num \in ValidNumbers(completedBoard, row, col) :
            completedBoard' = SetCell(completedBoard, row, col, num)
    /\ cellIdx' = cellIdx + 1
    /\ UNCHANGED <<completeInput, emptyCells, completeDepth, phase, genVars,
                   predVars, widgetVars, strategicVars, fillVars, solveVars, removeVars>>

\* mutant of CompleteRestart: a cell that cannot be filled is left empty and
\* the loop goes on
CompleteSkipCell ==
    /\ phase = "completing"
    /\ cellIdx <= Len(emptyCells)
    /\ ValidNumbers(completedBoard, emptyCells[cellIdx][1], emptyCells[cellIdx][2]) = {}
    /\ cellIdx' = cellIdx + 1
    /\ UNCHANGED <<completeInput, completedBoard, emptyCells, completeDepth, phase,
                   genVars, predVars, widgetVars, strategicVars, fillVars, solveVars, removeVars>>

\* the iteration could not fill the cell: "if (!filled) return
\* completeBoard(boardCopy(board))", a nested call on a copy of the argument
CompleteRestart ==
    /\ phase = "completing"
    /\ cellIdx <= Len(emptyCells)
    /\ ValidNumbers(completedBoard, emptyCells[cellIdx][1], emptyCells[cellIdx][2]) = {}
    /\ completedBoard' = boardCopy(boardCopy(completeInput))
    /\ emptyCells' = EmptyCellsFrom(boardCopy(completeInput), 0, 0)
    /\ cellIdx' = 1
    /\ completeDepth' = Min(completeDepth + 1, MaxCompleteDepth)
    /\ UNCHANGED <<completeInput, phase, genVars, predVars, widgetVars, strategicVars, fillVars, solveVars,
                   removeVars>>

\* every empty cell was filled: return completedBoard
CompleteReturn ==
    /\ phase = "completing"
    /\ cellIdx > Len(emptyCells)
    /\ phase' = "completed"
    /\ UNCHANGED <<completeVars, genVars, predVars, widgetVars, strategicVars, fillVars, solveVars, removeVars>>

----------------------------------------------------------------------------
(* utils/hebrewChars.ts.  A character is written as its code point. *)

FULL_CHINESE_CHARS ==
    << [char |-> "U+4E00", color |-> "#FF0000", value |-> 1],
       [char |-> "U+4E8C", color |-> "#FFA500", value |-> 2],
       [char |-> "U+4E09", color |-> "#FFFF00", value |-> 3],
       [char |-> "U+4E94", color |-> "#00EE00", value |-> 4],
       [char |-> "U+516D", color |-> "#4169E1", value |-> 5],
       [char |-> "U+4E03", color |-> "#FF00FF", value |-> 6],
       [char |-> "U+516B", color |-> "#23dbcf", value |-> 7],
       [char |-> "U+4E5D", color |-> "#945206", value |-> 8],
       [char |-> "U+5341", color |-> "#404040", value |-> 9] >>

FULL_HEBREW_CHARS ==
    << [char |-> "U+05D0", color |-> "#FF0000", value |-> 1],
       [char |-> "U+05D1", color |-> "#FFA500", value |-> 2],
       [char |-> "U+05D2", color |-> "#FFFF00", value |-> 3],
       [char |-> "U+05D3", color |-> "#00EE00", value |-> 4],
       [char |-> "U+05D4", color |-> "#4169E1", value |-> 5],
       [char |-> "U+05DE", color |-> "#FF00FF", value |-> 6],
       [char |-> "U+05E6", color |-> "#23dbcf", value |-> 7],
       [char |-> "U+05E9", color |-> "#945206", value |-> 8],
       [char |-> "U+05EA", color |-> "#404040", value |-> 9] >>

\* every entry is the same square, in another colour
COLOR_CHARS ==
    << [char |-> "U+25A0", color |-> "#FF0000", value |-> 1],
       [char |-> "U+25A0", color |-> "#FFA500", value |-> 2],
       [char |-> "U+25A0", color |-> "#FFFF00", value |-> 3],
       [char |-> "U+25A0", color |-> "#00EE00", value |-> 4],
       [char |-> "U+25A0", color |-> "#4169E1", value |-> 5],
       [char |-> "U+25A0", color |-> "#FF00FF", value |-> 6],
       [char |-> "U+25A0", color |-> "#23dbcf", value |-> 7],
       [char |-> "U+25A0", color |-> "#945206", value |-> 8],
       [char |-> "U+25A0", color |-> "#404040", value |-> 9] >>

GameVariants == {"chinese", "alphabet", "colors"}

\* the "const source = ..." of the three functions
Source(variant) ==
    IF variant = "chinese" THEN FULL_CHINESE_CHARS
    ELSE IF variant = "alphabet" THEN FULL_HEBREW_CHARS
    ELSE COLOR_CHARS

\* source.slice(0, size)
getHebrewChars(n, variant) ==
    SubSeq(Source(variant), 1, Min(n, Len(Source(variant))))

\* source.find(char => char.value === value) from index i on: <<entry>> for
\* the first entry that matches, <<>> for undefined
RECURSIVE FindValue(_, _, _)
FindValue(source, value, i) ==
    IF i > Len(source) THEN <<>>
    ELSE IF source[i].value = value THEN <<source[i]>>
    ELSE FindValue(source, value, i + 1)

\* source.find(hc => hc.char === char)
RECURSIVE FindChar(_, _, _)
FindChar(source, char, i) ==
    IF i > Len(source) THEN <<>>
    ELSE IF source[i].char = char THEN <<source[i]>>
    ELSE FindChar(source, char, i + 1)

\* mutant of getHebrewChar: a value that is not found gives the first entry
getHebrewCharFirst(value, variant) ==
    LET found == FindValue(Source(variant), value, 1) IN
    IF found = <<>> THEN Source(variant)[1]
    ELSE found[1]

getHebrewChar(value, variant) ==
    LET found == FindValue(Source(variant), value, 1) IN
    IF found = <<>> THEN [char |-> "", color |-> "#000000", value |-> 0]
    ELSE found[1]

getValueFromChar(char, variant) ==
    LET found == FindChar(Source(variant), char, 1) IN
    IF found = <<>> THEN 0
    ELSE found[1].value

\* the value of the test 'handles invalid character lookups'
InvalidValue == 999

LookupValues == (-1 .. MaxLookupValue) \cup {InvalidValue}

VariantChars(variant) ==
    {Source(variant)[i].char : i \in 1 .. Len(Source(variant))}

\* every character of a table, the empty string, and the test's 'invalid'
LookupChars == UNION {VariantChars(variant) : variant \in GameVariants}
                  \cup {"", "invalid"}

\* a caller evaluates createEmptyBoard(size)
CallCreateEmptyBoard ==
    /\ pCall = NoCall
    /\ \E n \in 1 .. MaxCreateSize :
          /\ pCall' = [fn |-> "createEmptyBoard", size |-> n]
          /\ pResult' = createEmptyBoard(n)
    /\ UNCHANGED pBoard

\* a caller evaluates getHebrewChar(value, variant)
CallGetHebrewChar ==
    /\ pCall = NoCall
    /\ \E value \in LookupValues, variant \in GameVariants :
          /\ pCall' = [fn |-> "getHebrewChar", value |-> value, variant |-> variant]
          /\ pResult' = getHebrewChar(value, variant)
    /\ UNCHANGED pBoard

\* a caller evaluates getValueFromChar(char, variant)
CallGetValueFromChar ==
    /\ pCall = NoCall
    /\ \E char \in LookupChars, variant \in GameVariants :
          /\ pCall' = [fn |-> "getValueFromChar", char |-> char, variant |-> variant]
          /\ pResult' = getValueFromChar(char, variant)
    /\ UNCHANGED pBoard

\* a caller takes an entry of getHebrewChars(size, variant) and looks it up
\* both ways, as the test 'supports %s variant' does with the first entry
CallLookupEntry ==
    /\ pCall = NoCall
    /\ \E variant \in GameVariants, n \in MinBoardSize .. MaxBoardSize :
          \E k \in 1 .. Len(getHebrewChars(n, variant)) :
             LET entry == getHebrewChars(n, variant)[k] IN
             /\ pCall' = [fn |-> "lookupEntry", variant |-> variant, size |-> n,
                          entry |-> entry]
             /\ pResult' = [foundChar |-> getHebrewChar(entry.value, variant),
                            value |-> getValueFromChar(entry.char, variant)]
    /\ UNCHANGED pBoard

----------------------------------------------------------------------------
(* The board widget *)

\* mutant of StartNewGame: initialBoard is set from the solved board
StartNewGameKeepsSolution ==
    /\ phase = "removed"
    /\ widgetBoard' = boardCopy(puzzle)
    /\ initialBoard' = boardCopy(board)
    /\ selectedCell' = <<>>
    /\ errors' = {}
    /\ timer' = 0
    /\ isRunning' = TRUE
    /\ phase' = "playing"
    /\ UNCHANGED <<genVars, predVars, fillVars, solveVars, removeVars, completeVars,
                   strategicVars>>

\* startNewGame once generateBoard(boardSize) has returned newBoard (board
\* here) and removeNumbers(newBoard, difficulty) has returned puzzle: the
\* state updates
StartNewGame ==
    /\ phase = "removed"
    /\ widgetBoard' = boardCopy(puzzle)
    /\ initialBoard' = boardCopy(puzzle)
    /\ selectedCell' = <<>>
    /\ errors' = {}
    /\ timer' = 0
    /\ isRunning' = TRUE
    /\ phase' = "playing"
    /\ UNCHANGED <<genVars, predVars, fillVars, solveVars, removeVars, completeVars,
                   strategicVars>>

----------------------------------------------------------------------------
(* Specifications *)

\* the useState initial values; <<>> stands for null
WidgetIdle ==
    /\ widgetBoard = NoBoard
    /\ initialBoard = NoBoard
    /\ selectedCell = <<>>
    /\ errors = {}
    /\ timer = 0
    /\ isRunning = FALSE

\* removeNumbersStrategically is not running
StrategicIdle ==
    /\ targetStrategies = {}
    /\ maxAttempts = 0
    /\ targetCellsToRemove = <<>>
    /\ cellAttempts = 0
    /\ canRemove = FALSE

EngineIdle ==
    /\ WidgetIdle
    /\ StrategicIdle
    /\ phase = "idle"
    /\ size = 0
    /\ board = NoBoard
    /\ fillStack = <<>>
    /\ fillPc = "idle"
    /\ fillRet = FALSE
    /\ fillExit = NoExit
    /\ solveBoard = NoBoard
    /\ solveStack = <<>>
    /\ solvePc = "idle"
    /\ solveRet = FALSE
    /\ solveExit = NoExit
    /\ strategiesUsed = {}
    /\ difficulty = "easy"
    /\ targetEmptyCells = 0
    /\ puzzle = NoBoard
    /\ cells = {}
    /\ removedCells = 0
    /\ attempts = 0
    /\ trial = NoTrial
    /\ removePc = "idle"
    /\ removeArg = NoBoard
    /\ completeInput = NoBoard
    /\ completedBoard = NoBoard
    /\ emptyCells = <<>>
    /\ cellIdx = 1
    /\ completeDepth = 0

Init ==
    /\ EngineIdle
    /\ pBoard = NoBoard
    /\ pCall = NoCall
    /\ pResult = FALSE

Next ==
    \/ GenerateBoard
    \/ FillCall
    \/ FillNext
    \/ FillExhausted
    \/ FillResume
    \/ GenerateReturn
    \/ RemoveNumbers
    \/ RemoveTrial
    \/ SolveCall
    \/ SolveNext
    \/ SolveExhausted
    \/ SolveResume
    \/ RemoveCheck
    \/ RemoveReturn
    \/ CompleteBoard
    \/ CompleteCell
    \/ CompleteRestart
    \/ CompleteReturn
    \/ StartNewGame

Spec == Init /\ [][Next]_vars

\* generateBoard alone; the program is single-threaded and keeps running
\* until the call returns
GenerateNext ==
    \/ GenerateBoard
    \/ FillCall
    \/ FillNext
    \/ FillExhausted
    \/ FillResume
    \/ GenerateReturn

GenerateSpec == Init /\ [][GenerateNext]_vars /\ WF_vars(GenerateNext)

\* What generateBoard can return for size n: every full n x n board whose
\* rows and columns hold each of 1..n once (fillBoard can draw each of them,
\* and returns nothing else).
Perms(n) ==
    {p \in [Range(n) -> 1 .. n] : \A x \in Range(n) : \A y \in Range(n) :
        x # y => p[x] # p[y]}

GeneratedBoards(n) ==
    {b \in [Range(n) -> Perms(n)] : \A j \in Range(n) :
        \A x \in Range(n) : \A y \in Range(n) : x # y => b[x][j] # b[y][j]}

ClearedBoard(b, cs) ==
    [i \in DOMAIN b |-> [j \in DOMAIN b[i] |-> IF <<i, j>> \in cs THEN 0 ELSE b[i][j]]]

\* The states in which generateBoard has just returned.
GeneratedState ==
    /\ phase = "generated"
    /\ size \in 1 .. MaxSize
    /\ board \in GeneratedBoards(size)
    /\ fillStack = <<>>
    /\ fillPc = "idle"
    /\ fillRet = TRUE
    /\ fillExit = NoExit
    /\ solveBoard = NoBoard
    /\ solveStack = <<>>
    /\ solvePc = "idle"
    /\ solveRet = FALSE
    /\ solveExit = NoExit
    /\ strategiesUsed = {}
    /\ difficulty = "easy"
    /\ targetEmptyCells = 0
    /\ puzzle = NoBoard
    /\ cells = {}
    /\ removedCells = 0
    /\ attempts = 0
    /\ trial = NoTrial
    /\ removePc = "idle"
    /\ removeArg = NoBoard
    /\ completeInput = NoBoard
    /\ completedBoard = NoBoard
    /\ emptyCells = <<>>
    /\ cellIdx = 1
    /\ completeDepth = 0
    /\ WidgetIdle
    /\ StrategicIdle
    /\ pBoard = NoBoard
    /\ pCall = NoCall
    /\ pResult = FALSE

\* Under Spec the states with phase = "generated" are exactly these.
GeneratedStatesKnown == phase = "generated" => GeneratedState

StrategicNext ==
    \/ RemoveNumbersStrategically
    \/ StrategicTrial
    \/ StrategicAttempt
    \/ StrategicDecide
    \/ StrategicReturn

\* removeNumbersStrategically on a board generateBoard returned
StrategicSpec == GeneratedState /\ [][StrategicNext]_vars

\* The states in which removeNumbers has just returned to the caller of
\* generateBoard and removeNumbers.
RemovedState ==
    /\ phase = "removed"
    /\ size \in 1 .. MaxSize
    /\ board \in GeneratedBoards(size)
    /\ difficulty \in Difficulties \cup {InvalidDifficulty}
    /\ targetEmptyCells = TargetEmptyCells(size * size, difficulty)
    /\ removedCells = targetEmptyCells
    /\ attempts = targetEmptyCells
    /\ \E cs \in SUBSET AllCells(size) :
          /\ Cardinality(cs) = targetEmptyCells
          /\ puzzle = ClearedBoard(board, cs)
    /\ removeArg = board
    /\ cells = {}
    /\ trial = NoTrial
    /\ removePc = "idle"
    /\ fillStack = <<>>
    /\ fillPc = "idle"
    /\ fillRet = TRUE
    /\ fillExit = NoExit
    /\ solveBoard = NoBoard
    /\ solveStack = <<>>
    /\ solvePc = "idle"
    /\ solveRet = (targetEmptyCells > 0)
    /\ solveExit = NoExit
    /\ strategiesUsed = {}
    /\ completeInput = NoBoard
    /\ completedBoard = NoBoard
    /\ emptyCells = <<>>
    /\ cellIdx = 1
    /\ completeDepth = 0
    /\ WidgetIdle
    /\ StrategicIdle
    /\ pBoard = NoBoard
    /\ pCall = NoCall
    /\ pResult = FALSE

\* Under Spec the states with phase = "removed" are exactly these.
RemovedStatesKnown == phase = "removed" => RemovedState

CompleteNext ==
    \/ CompleteBoard
    \/ CompleteCell
    \/ CompleteRestart
    \/ CompleteReturn

\* removeNumbers leaves at most this many empty cells (its hard target)
MaxEmptyCells == TargetEmptyCells(MaxSize * MaxSize, "hard")

\* The step of completeBoard that places, at the k-th empty cell, the value
\* the generated board holds there, the cells before it holding the
\* generated board's values too.
CompleteAgree(k) ==
    /\ cellIdx = k
    /\ \A m \in 1 .. (k - 1) :
          completedBoard[emptyCells[m][1]][emptyCells[m][2]]
             = board[emptyCells[m][1]][emptyCells[m][2]]
    /\ CompleteCell
    /\ cellIdx' = k + 1
    /\ completedBoard'[emptyCells[k][1]][emptyCells[k][2]]
          = board[emptyCells[k][1]][emptyCells[k][2]]

\* completeBoard on a board removeNumbers returned, run to the end.  Every
\* outcome of a shuffle has a positive probability, so an outcome that is
\* possible again and again is drawn sooner or later: strong fairness of the
\* placements above.
CompleteSpec ==
    /\ RemovedState
    /\ [][CompleteNext]_vars
    /\ WF_vars(CompleteNext)
    /\ \A k \in 1 .. MaxEmptyCells : SF_vars(CompleteAgree(k))

\* startNewGame from the return of removeNumbers on
GameSpec == RemovedState /\ [][StartNewGame]_vars

\* the boards solveWithStrategies is started on: square, cells 0..n, and
\* accepted by isBoardValid
SolveBoards(maxSize) ==
    UNION {{b \in Grids(n, n, 0 .. n) : isBoardValid(b)} : n \in 1 .. maxSize}

\* a caller calls solveWithStrategies(board, new Set())
SolveInit ==
    /\ WidgetIdle
    /\ StrategicIdle
    /\ phase = "solving"
    /\ size = 0
    /\ board = NoBoard
    /\ fillStack = <<>>
    /\ fillPc = "idle"
    /\ fillRet = FALSE
    /\ fillExit = NoExit
    /\ solveBoard \in SolveBoards(MaxSolveSize)
    /\ solveStack = <<>>
    /\ solvePc = "call"
    /\ solveRet = FALSE
    /\ solveExit = NoExit
    /\ strategiesUsed = {}
    /\ difficulty = "easy"
    /\ targetEmptyCells = 0
    /\ puzzle = NoBoard
    /\ cells = {}
    /\ removedCells = 0
    /\ attempts = 0
    /\ trial = NoTrial
    /\ removePc = "idle"
    /\ removeArg = NoBoard
    /\ completeInput = NoBoard
    /\ completedBoard = NoBoard
    /\ emptyCells = <<>>
    /\ cellIdx = 1
    /\ completeDepth = 0
    /\ pBoard = NoBoard
    /\ pCall = NoCall
    /\ pResult = FALSE

SolveStep ==
    \/ SolveCall
    \/ SolveNext
    \/ SolveExhausted
    \/ SolveResume

\* one call of solveWithStrategies, run until it returns: the program is
\* single-threaded and nothing else runs meanwhile
SolveSpec == SolveInit /\ [][SolveStep]_vars /\ WF_vars(SolveStep)

\* the two backtracking searches: fillBoard under generateBoard, and
\* solveWithStrategies on any valid board
SearchInit == Init \/ SolveInit

SearchNext == GenerateNext \/ SolveStep

SearchSpec == SearchInit /\ [][SearchNext]_vars

\* SolveRun gives what the activations of solveWithStrategies compute
SolveRunAgrees ==
    (solvePc = "ret" /\ solveStack = <<>>) =>
        SolveRun(solveExit.entry, {}) =
            [result |-> solveRet, board |-> solveBoard, used |-> strategiesUsed]

\* every use of the accumulator: a run of solveWithStrategies on any valid
\* board, or removeNumbersStrategically on a generated board
TagInit == SolveInit \/ GeneratedState

TagNext == SolveStep \/ StrategicNext

TagSpec == TagInit /\ [][TagNext]_vars

----------------------------------------------------------------------------
(* The board widget's event handlers.  size is its boardSize, difficulty its
   difficulty, widgetBoard its board; <<>> is the null of selectedCell; an
   entry of errors is <<"row", i>> for `row-${i}` and <<"col", j>> for
   `col-${j}`.  The interval callback writes timer only and is left out. *)

\* "Check rows" of validateBoard for row i from column j on: whether row-i
\* is added
RECURSIVE RowRepeats(_, _, _, _, _)
RowRepeats(b, i, j, seen, n) ==
    IF j >= n THEN FALSE
    ELSE IF b[i][j] # 0
         THEN IF b[i][j] \in seen THEN TRUE
              ELSE RowRepeats(b, i, j + 1, seen \cup {b[i][j]}, n)
         ELSE RowRepeats(b, i, j + 1, seen, n)

\* "Check columns" of validateBoard for column j from row i on
RECURSIVE ColRepeats(_, _, _, _, _)
ColRepeats(b, j, i, seen, n) ==
    IF i >= n THEN FALSE
    ELSE IF b[i][j] # 0
         THEN IF b[i][j] \in seen THEN TRUE
              ELSE ColRepeats(b, j, i + 1, seen \cup {b[i][j]}, n)
         ELSE ColRepeats(b, j, i + 1, seen, n)

\* the newErrors that validateBoard(currentBoard) hands to setErrors
validateBoard(currentBoard, n) ==
    {<<"row", i>> : i \in {x \in Range(n) : RowRepeats(currentBoard, x, 0, {}, n)}}
    \cup {<<"col", j>> : j \in {y \in Range(n) : ColRepeats(currentBoard, y, 0, {}, n)}}

\* mutant of handleCellClick: the test on initialBoard is missing
handleCellClickAny ==
    /\ phase = "playing"
    /\ \E row \in Range(size), col \in Range(size) :
          selectedCell' = <<row, col>>
    /\ UNCHANGED <<widgetBoard, initialBoard, errors, timer, isRunning, phase,
                   genVars, predVars, fillVars, solveVars, removeVars,
                   completeVars, strategicVars>>

\* a click on the cell (row, col)
handleCellClick ==
    /\ phase = "playing"
    /\ \E row \in Range(size), col \in Range(size) :
          IF initialBoard[row][col] # 0
          THEN UNCHANGED selectedCell
          ELSE selectedCell' = <<row, col>>
    /\ UNCHANGED <<widgetBoard, initialBoard, errors, timer, isRunning, phase,
                   genVars, predVars, fillVars, solveVars, removeVars,
                   completeVars, strategicVars>>

\* "newBoard[row][col] = value; setBoard(newBoard); validateBoard(newBoard)"
\* on a copy of board, at the selected cell
WriteSelected(value) ==
    /\ widgetBoard' = SetCell(boardCopy(widgetBoard), selectedCell[1], selectedCell[2], value)
    /\ errors' = validateBoard(
                    SetCell(boardCopy(widgetBoard), selectedCell[1], selectedCell[2], value),
                    size)

\* the selected cell exists and is not a given one
SelectedIsFree ==
    /\ selectedCell # <<>>
    /\ initialBoard[selectedCell[1]][selectedCell[2]] = 0

\* keydown of a digit key "0".."9": /^[1-9]$/ and num <= boardSize
handleKeyPressDigit ==
    /\ phase = "playing"
    /\ \E num \in 0 .. 9 :
          IF SelectedIsFree /\ num >= 1 /\ num <= size
          THEN WriteSelected(num)
          ELSE UNCHANGED <<widgetBoard, errors>>
    /\ UNCHANGED <<initialBoard, selectedCell, timer, isRunning, phase,
                   genVars, predVars, fillVars, solveVars, removeVars,
                   completeVars, strategicVars>>

\* keydown of another key, "a" standing for every key that is neither a
\* digit nor backspace nor delete
handleKeyPressOther ==
    /\ phase = "playing"
    /\ \E key \in {"backspace", "delete", "a"} :
          IF SelectedIsFree /\ key \in {"backspace", "delete"}
          THEN WriteSelected(0)
          ELSE UNCHANGED <<widgetBoard, errors>>
    /\ UNCHANGED <<initialBoard, selectedCell, timer, isRunning, phase,
                   genVars, predVars, fillVars, solveVars, removeVars,
                   completeVars, strategicVars>>

\* a click on a button of the number pad; the buttons are the entries of
\* getHebrewChars(boardSize, gameVariant), whatever variant is chosen
NumberPadClick ==
    /\ phase = "playing"
    /\ \E variant \in GameVariants :
          \E k \in 1 .. Len(getHebrewChars(size, variant)) :
             IF SelectedIsFree
             THEN WriteSelected(getHebrewChars(size, variant)[k].value)
             ELSE UNCHANGED <<widgetBoard, errors>>
    /\ UNCHANGED <<initialBoard, selectedCell, timer, isRunning, phase,
                   genVars, predVars, fillVars, solveVars, removeVars,
                   completeVars, strategicVars>>

\* mutant of ClearClick: the board is written but not validated
ClearClickNoValidate ==
    /\ phase = "playing"
    /\ IF SelectedIsFree
       THEN /\ widgetBoard' = SetCell(boardCopy(widgetBoard), selectedCell[1],
                                      selectedCell[2], 0)
            /\ UNCHANGED errors
       ELSE UNCHANGED <<widgetBoard, errors>>
    /\ UNCHANGED <<initialBoard, selectedCell, timer, isRunning, phase,
                   genVars, predVars, fillVars, solveVars, removeVars,
                   completeVars, strategicVars>>

\* a click on the "clear" button of the number pad
ClearClick ==
    /\ phase = "playing"
    /\ IF SelectedIsFree
       THEN WriteSelected(0)
       ELSE UNCHANGED <<widgetBoard, errors>>
    /\ UNCHANGED <<initialBoard, selectedCell, timer, isRunning, phase,
                   genVars, predVars, fillVars, solveVars, removeVars,
                   completeVars, strategicVars>>

\* the first two lines of startNewGame: generateBoard(n) returns newBoard
\* (board here), any of GeneratedBoards(n), and removeNumbers(newBoard, d)
\* returns puzzle, newBoard with its target number of cells cleared (these
\* are the states in which removeNumbers returns, see RemovedStatesKnown)
EngineReturns(n, d) ==
    /\ size' = n
    /\ difficulty' = d
    /\ targetEmptyCells' = TargetEmptyCells(n * n, d)
    /\ removedCells' = TargetEmptyCells(n * n, d)
    /\ attempts' = TargetEmptyCells(n * n, d)
    /\ solveRet' = (TargetEmptyCells(n * n, d) > 0)
    /\ \E b \in GeneratedBoards(n) :
          \E cs \in {c \in SUBSET AllCells(n) :
                        Cardinality(c) = TargetEmptyCells(n * n, d)} :
             /\ board' = b
             /\ removeArg' = b
             /\ puzzle' = ClearedBoard(b, cs)
    /\ phase' = "removed"
    /\ UNCHANGED <<cells, trial, removePc, solveBoard, solveStack, solvePc,
                   solveExit, strategiesUsed, fillVars, completeVars, predVars,
                   strategicVars>>

\* the "New" button: startNewGame with the current boardSize and difficulty
NewClick ==
    /\ phase = "playing"
    /\ EngineReturns(size, difficulty)
    /\ UNCHANGED widgetVars

\* the size select: setBoardSize, setIsRunning(false); startNewGame changes
\* with boardSize and the effect on it calls it
BoardSizeChange ==
    /\ phase = "playing"
    /\ \E n \in (1 .. MaxPlaySize) \ {size} : EngineReturns(n, difficulty)
    /\ isRunning' = FALSE
    /\ UNCHANGED <<widgetBoard, initialBoard, selectedCell, errors, timer>>

\* the difficulty select, likewise
DifficultyChange ==
    /\ phase = "playing"
    /\ \E d \in Difficulties \ {difficulty} : EngineReturns(size, d)
    /\ isRunning' = FALSE
    /\ UNCHANGED <<widgetBoard, initialBoard, selectedCell, errors, timer>>

\* startNewGame is past its two engine calls, for a size the widget is
\* played with and a difficulty of the select
PlayInit ==
    /\ size \in 1 .. MaxPlaySize
    /\ difficulty \in Difficulties
    /\ RemovedState

PlayNext ==
    \/ StartNewGame
    \/ handleCellClick
    \/ handleKeyPressDigit
    \/ handleKeyPressOther
    \/ NumberPadClick
    \/ ClearClick
    \/ NewClick
    \/ BoardSizeChange
    \/ DifficultyChange

\* the widget from its first new game on, under any sequence of events
PlaySpec == PlayInit /\ [][PlayNext]_vars

\* the boards completeBoard is called on: every square board of size 1..2
\* with cells 0..n, and the boards of larger size that isBoardValid accepts
CompleteInputs(maxSize) ==
    SolveBoards(maxSize) \cup UNION {Grids(n, n, 0 .. n) : n \in 1 .. Min(maxSize, 2)}

\* a caller holds a partially filled board where the test 'can complete a
\* partially filled board' holds the result of removeNumbers
PartialState ==
    /\ WidgetIdle
    /\ StrategicIdle
    /\ phase = "removed"
    /\ puzzle \in CompleteInputs(MaxSolveSize)
    /\ size = BoardLen(puzzle)
    /\ board = NoBoard
    /\ fillStack = <<>>
    /\ fillPc = "idle"
    /\ fillRet = FALSE
    /\ fillExit = NoExit
    /\ solveBoard = NoBoard
    /\ solveStack = <<>>
    /\ solvePc = "idle"
    /\ solveRet = FALSE
    /\ solveExit = NoExit
    /\ strategiesUsed = {}
    /\ difficulty = "easy"
    /\ targetEmptyCells = 0
    /\ cells = {}
    /\ removedCells = 0
    /\ attempts = 0
    /\ trial = NoTrial
    /\ removePc = "idle"
    /\ removeArg = NoBoard
    /\ completeInput = NoBoard
    /\ completedBoard = NoBoard
    /\ emptyCells = <<>>
    /\ cellIdx = 1
    /\ completeDepth = 0
    /\ pBoard = NoBoard
    /\ pCall = NoCall
    /\ pResult = FALSE

\* completeBoard on any of these boards
PartialSpec == PartialState /\ [][CompleteNext]_vars

\* createEmptyBoard and the lookups of hebrewChars.ts, each called once
UtilityNext ==
    \/ CallCreateEmptyBoard /\ UNCHANGED <<phase, genVars, fillVars, solveVars, removeVars, completeVars,
                     widgetVars, strategicVars>>
    \/ CallGetHebrewChar /\ UNCHANGED <<phase, genVars, fillVars, solveVars, removeVars, completeVars,
                     widgetVars, strategicVars>>
    \/ CallGetValueFromChar /\ UNCHANGED <<phase, genVars, fillVars, solveVars, removeVars, completeVars,
                     widgetVars, strategicVars>>
    \/ CallLookupEntry /\ UNCHANGED <<phase, genVars, fillVars, solveVars, removeVars, completeVars,
                     widgetVars, strategicVars>>

UtilitySpec == Init /\ [][UtilityNext]_vars

PredicateInit == PredInit /\ EngineIdle

PredicateNext ==
    \/ CallIsValidPlacement /\ UNCHANGED <<phase, genVars, fillVars, solveVars, removeVars, completeVars,
                     widgetVars, strategicVars>>
    \/ CallIsBoardValid /\ UNCHANGED <<phase, genVars, fillVars, solveVars, removeVars, completeVars,
                     widgetVars, strategicVars>>
    \/ CallClearCell /\ UNCHANGED <<phase, genVars, fillVars, solveVars, removeVars, completeVars,
                     widgetVars, strategicVars>>

PredicateSpec == PredicateInit /\ [][PredicateNext]_vars


----------------------------------------------------------------------------
(* Properties *)

IsFull(b) == \A i \in DOMAIN b : \A j \in DOMAIN b[i] : b[i][j] # 0

EmptyCount(b) ==
    Cardinality({cell \in AllCells(BoardLen(b)) : b[cell[1]][cell[2]] = 0})

\* no non-zero value twice in a row or in a column of the leading n x n block
NoDuplicates(b, n) ==
    /\ \A i \in Range(n) : \A j1 \in Range(n) : \A j2 \in Range(n) :
          (j1 # j2 /\ b[i][j1] # 0) => b[i][j1] # b[i][j2]
    /\ \A j \in Range(n) : \A i1 \in Range(n) : \A i2 \in Range(n) :
          (i1 # i2 /\ b[i1][j] # 0) => b[i1][j] # b[i2][j]

\* floor(n * n * percent / 100)
FloorFraction(n, percent) == (n * n * percent) \div 100

Percent(d) ==
    CASE d = "easy" -> 40
      [] d = "medium" -> 60
      [] d = "hard" -> 75

\* C1: generateBoard(N) terminates, fillBoard's outermost call returns true,
\* and the returned board is N x N, has no empty cell and passes isBoardValid.
C1_GenerateBoard ==
    /\ [](phase = "generated" =>
            /\ fillRet
            /\ BoardLen(board) = size
            /\ IsSquare(board)
            /\ IsFull(board)
            /\ isBoardValid(board))
    /\ (phase = "filling") ~> (phase = "generated")

C1_Witness ==
    /\ phase = "generated"
    /\ size = MaxSize
    /\ IsFull(board)

\* C2: for easy, medium and hard the board removeNumbers returns passes
\* isBoardValid and has at most floor(N*N*fraction) empty cells.
C2_RemoveWithinTarget ==
    (phase = "removed" /\ difficulty \in Difficulties) =>
        /\ isBoardValid(puzzle)
        /\ EmptyCount(puzzle) <= FloorFraction(size, Percent(difficulty))

C2_Witness ==
    /\ phase = "removed"
    /\ difficulty = "hard"
    /\ size = MaxSize
    /\ EmptyCount(puzzle) = FloorFraction(MaxSize, 75)
    /\ EmptyCount(puzzle) > 0

\* C3: the board removeNumbers returns is its argument with some cells
\* cleared: each cell is 0 or the argument's cell, the argument (full and
\* valid) is a completion of it, and the argument is unchanged by the call.
C3_RemoveOnlyClears ==
    phase = "removed" =>
        /\ \A cell \in AllCells(size) :
              puzzle[cell[1]][cell[2]] \in {0, removeArg[cell[1]][cell[2]]}
        /\ IsFull(removeArg)
        /\ NoDuplicates(removeArg, size)
        /\ board = removeArg

C3_Witness ==
    /\ phase = "removed"
    /\ size = MaxSize
    /\ \E c1 \in AllCells(size), c2 \in AllCells(size) :
          /\ puzzle[c1[1]][c1[2]] = 0
          /\ puzzle[c2[1]][c2[2]] # 0

C5_OtherCellsOnly ==
    pCall.fn = "isValidPlacement" =>
        (pResult <=>
            /\ \A j \in Range(BoardLen(pBoard)) :
                  j # pCall.col => pBoard[pCall.row][j] # pCall.num
            /\ \A i \in Range(BoardLen(pBoard)) :
                  i # pCall.row => pBoard[i][pCall.col] # pCall.num)

\* C5 amended: isValidPlacement is true iff the value occurs in no cell of
\* the row and in no cell of the column, the target cell included.
C5_AnyCell ==
    pCall.fn = "isValidPlacement" =>
        (pResult <=>
            /\ \A j \in Range(BoardLen(pBoard)) : pBoard[pCall.row][j] # pCall.num
            /\ \A i \in Range(BoardLen(pBoard)) : pBoard[i][pCall.col] # pCall.num)

\* the value sits in the target cell and nowhere else in its row and column
C5_Witness ==
    /\ pCall.fn = "isValidPlacement"
    /\ BoardLen(pBoard) = MaxPureRows
    /\ pBoard[pCall.row][pCall.col] = pCall.num
    /\ \A j \in Range(BoardLen(pBoard)) :
          j # pCall.col => pBoard[pCall.row][j] # pCall.num
    /\ \A i \in Range(BoardLen(pBoard)) :
          i # pCall.row => pBoard[i][pCall.col] # pCall.num
    /\ ~pResult

InRow(b, row, num) == \E j \in Range(BoardLen(b)) : b[row][j] = num

InCol(b, col, num) == \E i \in Range(BoardLen(b)) : b[i][col] = num

IsCall(row, col, num) ==
    pCall = [fn |-> "isValidPlacement", row |-> row, col |-> col, num |-> num]

\* C6: isValidPlacement rejects a value present in the row or in the column
\* and accepts a value present in neither; on the 6x6 board with row 0 =
\* 1..6, (1,0,2) is accepted, (0,0,1) and (1,0,1) are rejected.
C6_RejectsPresent ==
    pCall.fn = "isValidPlacement" =>
        /\ (InRow(pBoard, pCall.row, pCall.num) \/ InCol(pBoard, pCall.col, pCall.num))
              => ~pResult
        /\ (~InRow(pBoard, pCall.row, pCall.num) /\ ~InCol(pBoard, pCall.col, pCall.num))
              => pResult
        /\ (pBoard = ScenarioBoard /\ IsCall(1, 0, 2)) => pResult
        /\ (pBoard = ScenarioBoard /\ IsCall(0, 0, 1)) => ~pResult
        /\ (pBoard = ScenarioBoard /\ IsCall(1, 0, 1)) => ~pResult

C6_Witness ==
    /\ pBoard = ScenarioBoard
    /\ IsCall(1, 0, 1)
    /\ ~pResult

\* C7: on a square board isBoardValid is true iff no non-zero value occurs
\* twice in a row or twice in a column; zeros never count and values above
\* N are not rejected.
C7_ValidIffNoDuplicates ==
    (pCall.fn = "isBoardValid" /\ IsSquare(pBoard)) =>
        (pResult <=> NoDuplicates(pBoard, BoardLen(pBoard)))

\* [[1,2],[3,4]]
C7_Witness ==
    /\ pCall.fn = "isBoardValid"
    /\ BoardLen(pBoard) = 2
    /\ IsSquare(pBoard)
    /\ pBoard[0][0] = 1 /\ pBoard[0][1] = 2
    /\ pBoard[1][0] = 3 /\ pBoard[1][1] = 4
    /\ pResult

HasMoreColumns(b) ==
    /\ BoardLen(b) > 0
    /\ \A i \in DOMAIN b : Cardinality(DOMAIN b[i]) > BoardLen(b)

\* C8 as stated: isBoardValid returns true for every board with fewer rows
\* than columns.
C8_WideAlwaysValid ==
    (pCall.fn = "isBoardValid" /\ HasMoreColumns(pBoard)) => pResult

\* C8 amended: on a board with R rows and more than R columns isBoardValid
\* looks at the leading R x R block only: it is true iff that block has no
\* non-zero value twice in a row or a column, whatever the other columns hold.
C8_WideLeadingBlock ==
    (pCall.fn = "isBoardValid" /\ HasMoreColumns(pBoard)) =>
        (pResult <=> NoDuplicates(pBoard, BoardLen(pBoard)))

\* a duplicate that involves a column beyond the block is not seen
C8_Witness ==
    /\ pCall.fn = "isBoardValid"
    /\ HasMoreColumns(pBoard)
    /\ BoardLen(pBoard) = MaxPureRows
    /\ pBoard[0][0] # 0
    /\ pBoard[0][0] = pBoard[0][BoardLen(pBoard)]
    /\ pResult

\* C9: when an activation of fillBoard or of solveWithStrategies returns
\* false, the board equals the board that activation was called with.
C9_RestoredOnFalse ==
    /\ (fillPc = "ret" /\ ~fillRet) => board = fillExit.entry
    /\ (solvePc = "ret" /\ ~solveRet) => solveBoard = solveExit.entry

C9_Witness ==
    /\ solvePc = "ret"
    /\ ~solveRet
    /\ solveExit.placed
    /\ solveBoard = solveExit.entry

\* C10: with a difficulty that is none of easy, medium, hard the target is
\* floor(N*N*0.40), the target of easy, and the returned board passes
\* isBoardValid with at most that many empty cells.
C10_UnknownDifficultyIsEasy ==
    (phase \in {"removing", "removed"} /\ difficulty \notin Difficulties) =>
        /\ targetEmptyCells = FloorFraction(size, 40)
        /\ targetEmptyCells = TargetEmptyCells(size * size, "easy")
        /\ phase = "removed" =>
              /\ isBoardValid(puzzle)
              /\ EmptyCount(puzzle) <= FloorFraction(size, 40)

C10_Witness ==
    /\ phase = "removed"
    /\ difficulty = InvalidDifficulty
    /\ size = MaxSize
    /\ EmptyCount(puzzle) = FloorFraction(MaxSize, 40)
    /\ EmptyCount(puzzle) > 0

\* C11 as stated: after a new game the widget holds the puzzle as its board
\* and the fully solved board the puzzle was cut from as initialBoard.
C11_ReferenceIsSolution ==
    phase = "playing" =>
        /\ widgetBoard = puzzle
        /\ initialBoard = board

\* C11 amended: after a new game board and initialBoard are both the puzzle
\* removeNumbers returned; the solved board is not stored, and initialBoard
\* differs from it as soon as a cell was removed.
C11_ReferenceIsPuzzle ==
    phase = "playing" =>
        /\ widgetBoard = puzzle
        /\ initialBoard = puzzle
        /\ EmptyCount(puzzle) > 0 => initialBoard # board

C11_Witness ==
    /\ phase = "playing"
    /\ size = MaxSize
    /\ IsFull(board)
    /\ EmptyCount(initialBoard) > 0
    /\ initialBoard = widgetBoard

\* C12: createEmptyBoard(size) returns, for every positive size, inside
\* 4..9 or not, exactly size rows of exactly size cells, all 0.
C12_CreateEmptyBoard ==
    pCall.fn = "createEmptyBoard" =>
        /\ BoardLen(pResult) = pCall.size
        /\ DOMAIN pResult = Range(pCall.size)
        /\ \A i \in DOMAIN pResult :
              /\ DOMAIN pResult[i] = Range(pCall.size)
              /\ \A j \in DOMAIN pResult[i] : pResult[i][j] = 0

C12_Witness ==
    /\ pCall.fn = "createEmptyBoard"
    /\ pCall.size = MaxBoardSize + 1
    /\ BoardLen(pResult) = MaxBoardSize + 1
    /\ pResult[MaxBoardSize][MaxBoardSize] = 0

\* the number of cells holding 0, whatever the board's shape
ZeroCount(b) ==
    Cardinality({cell \in UNION {{<<i, j>> : j \in DOMAIN b[i]} : i \in DOMAIN b} :
                    b[cell[1]][cell[2]] = 0})

\* C13: on a board isBoardValid accepts, setting any one cell to 0 gives a
\* board isBoardValid accepts too; on a full board, as generateBoard
\* returns, the number of empty cells then changes by exactly 1.
C13_ClearingKeepsValid ==
    pCall.fn = "clearCell" =>
        /\ isBoardValid(pBoard) => pResult
        /\ IsFull(pBoard) => ZeroCount(pCall.updated) = ZeroCount(pBoard) + 1

\* a cell of a board generateBoard(MaxPureRows) can return was cleared
C13_Witness ==
    /\ pCall.fn = "clearCell"
    /\ BoardLen(pBoard) = MaxPureRows
    /\ IsSquare(pBoard)
    /\ pBoard \in GeneratedBoards(MaxPureRows)
    /\ ZeroCount(pCall.updated) = 1
    /\ pResult

\* C14: getHebrewChar with a value outside 1..9 returns the sentinel record
\* (char '', value 0), and getValueFromChar with a string that is no
\* character of the variant returns 0.
C14_LookupNeverFails ==
    /\ (pCall.fn = "getHebrewChar" /\ pCall.value \notin 1 .. 9) =>
          /\ pResult.value = 0
          /\ pResult.char = ""
          /\ pResult = [char |-> "", color |-> "#000000", value |-> 0]
    /\ (pCall.fn = "getValueFromChar" /\ pCall.char \notin VariantChars(pCall.variant)) =>
          pResult = 0

C14_Witness ==
    /\ pCall.fn = "getHebrewChar"
    /\ pCall.value = InvalidValue
    /\ pCall.variant = "alphabet"
    /\ pResult.value = 0
    /\ pResult.char = ""

\* C15: for every variant, every size in 4..9 and every entry c of
\* getHebrewChars(size, variant), getHebrewChar(c.value, variant).char is
\* c.char and getValueFromChar(c.char, variant) is c.value.
C15_RoundTrip ==
    pCall.fn = "lookupEntry" =>
        /\ pResult.foundChar.char = pCall.entry.char
        /\ pResult.value = pCall.entry.value

\* the outermost activation of solveWithStrategies has returned
SolveReturned == solvePc = "ret" /\ solveStack = <<>>

\* the full boards without a row or column duplicate that keep every filled
\* cell of b
Completions(b) ==
    {g \in GeneratedBoards(BoardLen(b)) :
        \A cell \in AllCells(BoardLen(b)) :
            b[cell[1]][cell[2]] # 0 => g[cell[1]][cell[2]] = b[cell[1]][cell[2]]}

\* C16: on a valid partial board solveWithStrategies terminates; it returns
\* true iff the filled cells extend to a full board without a row or column
\* duplicate, and then the board is such an extension.
C16_SolverDecides ==
    /\ [](SolveReturned =>
            /\ solveRet <=> Completions(solveExit.entry) # {}
            /\ solveRet =>
                  /\ IsFull(solveBoard)
                  /\ isBoardValid(solveBoard)
                  /\ solveBoard \in Completions(solveExit.entry))
    /\ <>SolveReturned

\* a search that had to undo a placement and still found a completion
C16_Witness ==
    /\ SolveReturned
    /\ solveRet
    /\ BoardLen(solveBoard) = MaxSolveSize
    /\ EmptyCount(solveExit.entry) > 1
    /\ IsFull(solveBoard)
    /\ LET cell == findEmptyCell(solveExit.entry)
           cands == CandidatesFrom(solveExit.entry, cell[1], cell[2], 1) IN
         /\ Len(cands) > 1
         /\ solveBoard[cell[1]][cell[2]] # cands[1]

\* the tag the claim gives a cell with n candidates
TagFor(n) ==
    IF n = 1 THEN {"Naked Single"}
    ELSE IF n > 1 THEN {"Backtracking"}
    ELSE {}

\* an activation of solveWithStrategies is at its entry and will find an
\* empty cell
VisitsCell == solvePc = "call" /\ findEmptyCell(solveBoard) # <<>>

\* the tag of the first empty cell of board b
FirstCellTag(b) ==
    LET cell == findEmptyCell(b) IN
    IF cell = <<>> THEN {}
    ELSE TagFor(Cardinality(ValidNumbers(b, cell[1], cell[2])))

\* C17: during a run the accumulator only grows; a visit of an empty cell
\* adds 'Naked Single' for one candidate, 'Backtracking' for several and
\* nothing for none, no other step changes it, and the tag of a cell whose
\* placements were all undone is still there when the run returns.
C17_TagsOnlyGrow ==
    /\ [][/\ strategiesUsed \subseteq strategiesUsed'
          /\ VisitsCell => strategiesUsed' = strategiesUsed \cup FirstCellTag(solveBoard)
          /\ ~VisitsCell => strategiesUsed' = strategiesUsed]_vars
    /\ [](SolveReturned => FirstCellTag(solveExit.entry) \subseteq strategiesUsed)
    /\ [](solvePc = "loop" =>
             \A k \in 1 .. Len(solveStack) :
                 TagFor(Len(solveStack[k].candidates)) \subseteq strategiesUsed)

\* the run returned false, every placement undone, with both tags kept
C17_Witness ==
    /\ SolveReturned
    /\ ~solveRet
    /\ solveExit.placed
    /\ solveBoard = solveExit.entry
    /\ strategiesUsed = {"Naked Single", "Backtracking"}

\* g is a full board without a row or column duplicate that keeps every
\* filled cell of b
IsCompletionOf(g, b) ==
    /\ IsFull(g)
    /\ NoDuplicates(g, BoardLen(g))
    /\ \A cell \in AllCells(BoardLen(b)) :
          b[cell[1]][cell[2]] # 0 => g[cell[1]][cell[2]] = b[cell[1]][cell[2]]

\* C18: 'Advanced' is never emitted: an accumulator that started empty
\* holds only 'Naked Single' and 'Backtracking', so a target set with both
\* tags keeps every removal the solver can solve, which is every removal
\* from a board that has a completion.
C18_AdvancedNeverEmitted ==
    /\ strategiesUsed \subseteq {"Naked Single", "Backtracking"}
    /\ (/\ phase = "strategic"
        /\ removePc = "decide"
        /\ {"Naked Single", "Backtracking"} \subseteq targetStrategies) =>
          /\ solveRet => canRemove
          /\ IsCompletionOf(removeArg, puzzle) => canRemove

\* the hard set kept a removal whose solve had to search
C18_Witness ==
    /\ phase = "strategic"
    /\ removePc = "decide"
    /\ size = MaxSize
    /\ targetStrategies = getStrategySet("hard")
    /\ "Backtracking" \in strategiesUsed
    /\ solveRet
    /\ canRemove

\* C19: the puzzle removeNumbersStrategically returns needs no technique
\* outside the target set: solveWithStrategies on a copy of it, with an
\* empty accumulator, returns true and accumulates a subset of the set.  A
\* cell is cleared in it only if its removal was kept; the other cells hold
\* the full board's values.
C19_WithinTargetSet ==
    (phase = "strategicRemoved" \/ (phase = "strategic" /\ removePc = "loop")) =>
        /\ \A r \in {SolveRun(boardCopy(puzzle), {})} :
              /\ r.result
              /\ r.used \subseteq targetStrategies
        /\ EmptyCount(puzzle) = removedCells
        /\ \A cell \in AllCells(size) :
              puzzle[cell[1]][cell[2]] \in {0, removeArg[cell[1]][cell[2]]}

\* a removal was kept and a later one was rejected and restored
C19_Witness ==
    /\ phase = "strategicRemoved"
    /\ size = MaxSize
    /\ targetStrategies = getStrategySet("easy")
    /\ removedCells > 0
    /\ attempts > removedCells
    /\ EmptyCount(puzzle) = removedCells

\* a coordinate is being trialled: popped, not yet counted in attempts
InTrial == IF removePc \in {"attempt", "decide"} THEN 1 ELSE 0

\* C20: removeNumbersStrategically trials at most maxAttempts cells, each
\* coordinate at most once, so it clears at most
\* min(maxAttempts, floor(N*N*fraction(d)), N*N) cells.
C20_AttemptsBounded ==
    phase \in {"strategic", "strategicRemoved"} =>
        /\ attempts + InTrial <= maxAttempts
        /\ phase = "strategic" =>
              attempts + InTrial + Cardinality(cells) = size * size
        /\ attempts <= size * size
        /\ removedCells <= attempts
        /\ difficulty \in Difficulties =>
              /\ EmptyCount(puzzle) - InTrial <= maxAttempts
              /\ EmptyCount(puzzle) - InTrial <= FloorFraction(size, Percent(difficulty))
              /\ EmptyCount(puzzle) - InTrial <= size * size

\* the attempt budget, not the target, ended the loop
C20_Witness ==
    /\ phase = "strategicRemoved"
    /\ size = MaxSize
    /\ maxAttempts = SmallMaxAttempts
    /\ attempts = maxAttempts
    /\ cells # {}
    /\ removedCells < targetCellsToRemove[1]

\* the solver is running for removeNumbers: its call is not yet counted in
\* attempts
InSolve == IF removePc = "solve" THEN 1 ELSE 0

\* C21: removeNumbers calls the solver at most once per coordinate and at
\* most N*N times, so attempts stays below the budget 2*N*N and the loop
\* ends because the target is reached or the coordinate list is exhausted.
C21_BudgetNeverBinds ==
    /\ phase = "removing" =>
          /\ attempts + InSolve + Cardinality(cells) = size * size
          /\ removePc = "solve" => <<trial.row, trial.col>> \notin cells
          /\ (removePc = "loop" /\ ~RemoveLoopCond) =>
                (removedCells >= targetEmptyCells \/ cells = {})
    /\ phase \in {"removing", "removed"} =>
          /\ attempts + InSolve <= size * size
          /\ size > 0 => attempts < size * size * 2

\* the loop has ended on the target, the budget far from spent
C21_Witness ==
    /\ phase = "removed"
    /\ size = MaxSize
    /\ difficulty = "hard"
    /\ removedCells = targetEmptyCells
    /\ attempts = removedCells
    /\ attempts > 0

\* (row, col) is empty and every value 1..N occurs in its row or its column
DeadEndCell(b, row, col) ==
    /\ b[row][col] = 0
    /\ \A v \in 1 .. BoardLen(b) :
          \/ \E j \in Range(BoardLen(b)) : b[row][j] = v
          \/ \E i \in Range(BoardLen(b)) : b[i][col] = v

HasDeadEnd(b) == \E cell \in AllCells(BoardLen(b)) : DeadEndCell(b, cell[1], cell[2])

\* C22: on an input with a dead-end cell completeBoard never returns: every
\* pass has a cell without candidate ahead of it, at which it restarts on a
\* copy of the input, and the only exit of the function is the return of a
\* board.
C22_DeadEndNeverReturns ==
    (phase \in {"completing", "completed"} /\ HasDeadEnd(completeInput)) =>
        /\ phase = "completing"
        /\ \E k \in cellIdx .. Len(emptyCells) :
              DeadEndCell(completedBoard, emptyCells[k][1], emptyCells[k][2])
        /\ ENABLED (CompleteCell \/ CompleteRestart)

\* a pass of a nested call on a valid dead-end input
C22_Witness ==
    /\ phase = "completing"
    /\ size = MaxSolveSize
    /\ isBoardValid(completeInput)
    /\ HasDeadEnd(completeInput)
    /\ completeDepth = MaxCompleteDepth
    /\ cellIdx > 1

\* C23: what completeBoard returns on a valid input is a valid completion of
\* it: full, equal to the input on the input's filled cells, accepted by
\* isBoardValid; the input is as it was at the call, and every pass starts
\* from the input, nothing of a failed pass being left in it.
C23_ValidCompletion ==
    /\ (phase = "completed" /\ isBoardValid(completeInput)) =>
          /\ BoardLen(completedBoard) = BoardLen(completeInput)
          /\ IsFull(completedBoard)
          /\ \A cell \in AllCells(BoardLen(completeInput)) :
                completeInput[cell[1]][cell[2]] # 0 =>
                    completedBoard[cell[1]][cell[2]] = completeInput[cell[1]][cell[2]]
          /\ isBoardValid(completedBoard)
    /\ phase \in {"completing", "completed"} => completeInput = puzzle
    /\ (phase = "completing" /\ cellIdx = 1) => completedBoard = completeInput

\* a board is returned after a pass that failed
C23_Witness ==
    /\ phase = "completed"
    /\ size = MaxSolveSize
    /\ isBoardValid(completeInput)
    /\ completeDepth > 1
    /\ IsFull(completedBoard)
    /\ \E c1 \in AllCells(size), c2 \in AllCells(size) :
          /\ completeInput[c1[1]][c1[2]] = 0
          /\ completeInput[c2[1]][c2[2]] # 0

\* activations of fillBoard that have not returned: those that hold a cell,
\* and the one just called, which has not looked for its cell yet
FillDepth == Len(fillStack) + (IF fillPc = "call" THEN 1 ELSE 0)

SolveDepth == Len(solveStack) + (IF solvePc = "call" THEN 1 ELSE 0)

\* C24: never more than N*N activations of fillBoard, of solveWithStrategies
\* or of completeBoard are active at the same time.
C24_DepthBounded ==
    /\ phase = "filling" => FillDepth <= size * size
    /\ solvePc # "idle" => SolveDepth <= BoardLen(solveBoard) * BoardLen(solveBoard)
    /\ phase = "completing" =>
          completeDepth <= BoardLen(completeInput) * BoardLen(completeInput)

\* C25: in removeNumbersStrategically a difficulty outside easy, medium and
\* hard gets the easy target floor(N*N*0.40), and cells are removed towards
\* it: with every strategy allowed and the default budget, as many as that.
C25_StrategicUnknownIsEasy ==
    (phase \in {"strategic", "strategicRemoved"} /\ difficulty = InvalidDifficulty) =>
        /\ targetCellsToRemove = <<Floor40(size * size)>>
        /\ (/\ phase = "strategicRemoved"
            /\ targetStrategies = Strategies
            /\ maxAttempts = DefaultMaxAttempts) =>
               EmptyCount(puzzle) = Floor40(size * size)

\* b holds the value of entry wherever entry is filled
KeepsFilled(entry, b) ==
    \A cell \in AllCells(BoardLen(entry)) :
        entry[cell[1]][cell[2]] # 0 => b[cell[1]][cell[2]] = entry[cell[1]][cell[2]]

\* C26: while fillBoard or solveWithStrategies runs on a valid board, the
\* board passes isBoardValid after every step, and the cells that were filled
\* when an activation was called hold the same values as long as it is
\* active and when it returns.
C26_SearchKeepsValid ==
    /\ phase = "filling" =>
          /\ isBoardValid(board)
          /\ \A k \in 1 .. Len(fillStack) : KeepsFilled(fillStack[k].entry, board)
          /\ fillPc = "ret" => KeepsFilled(fillExit.entry, board)
    /\ phase = "solving" =>
          /\ isBoardValid(solveBoard)
          /\ \A k \in 1 .. Len(solveStack) : KeepsFilled(solveStack[k].entry, solveBoard)
          /\ solvePc = "ret" => KeepsFilled(solveExit.entry, solveBoard)

\* fillBoard has backtracked below placed cells
FillBacktracked ==
    /\ phase = "filling"
    /\ size = MaxSize
    /\ Len(fillStack) >= 2
    /\ fillPc = "loop"
    /\ ~fillExit.result
    /\ fillStack[Len(fillStack)].placed

\* the solver has backtracked on a board that had filled cells at the call
C26_Witness ==
    /\ phase = "solving"
    /\ BoardLen(solveBoard) = MaxSolveSize
    /\ Len(solveStack) >= 2
    /\ solvePc = "loop"
    /\ ~solveExit.result
    /\ solveStack[1].entry # createEmptyBoard(MaxSolveSize)
    /\ solveStack[Len(solveStack)].placed

\* "const size = 6 as BoardSize" of the test 'generates board with
\* appropriate difficulty %s'
TestBoardSize == 6

\* C27: on a generated (full, valid) board every tentative removal of
\* removeNumbers passes the solver's check, so the loop runs exactly
\* floor(N*N*fraction(d)) times and the result has exactly that many empty
\* cells; for N = 6 the targets are 14, 21 and 27, inside the test's bounds.
C27_ExactTarget ==
    /\ (phase = "removing" /\ removePc = "solve" /\ solvePc = "ret"
            /\ solveStack = <<>>) => solveRet
    /\ phase = "removing" =>
          /\ removedCells = attempts
          /\ EmptyCount(puzzle) = removedCells + InSolve
    /\ phase = "removed" =>
          /\ EmptyCount(puzzle) = targetEmptyCells
          /\ attempts = targetEmptyCells
          /\ difficulty \in Difficulties =>
                EmptyCount(puzzle) = FloorFraction(size, Percent(difficulty))
    /\ TargetEmptyCells(TestBoardSize * TestBoardSize, "easy") = 14
    /\ TargetEmptyCells(TestBoardSize * TestBoardSize, "medium") = 21
    /\ TargetEmptyCells(TestBoardSize * TestBoardSize, "hard") = 27
    /\ 14 * 10 <= TestBoardSize * TestBoardSize * 5
    /\ 21 * 10 > TestBoardSize * TestBoardSize * 3
    /\ 21 * 10 <= TestBoardSize * TestBoardSize * 7
    /\ 27 * 10 > TestBoardSize * TestBoardSize * 5
    /\ 27 * 10 <= TestBoardSize * TestBoardSize * 8

\* a medium puzzle of the largest size came back with its target met
C27_Witness ==
    /\ phase = "removed"
    /\ size = MaxSize
    /\ difficulty = "medium"
    /\ EmptyCount(puzzle) = Floor60(MaxSize * MaxSize)
    /\ attempts = EmptyCount(puzzle)
    /\ IsFull(removeArg)

\* the removal of the trialled cell is allowed by what the solver left
Allowed == solveRet /\ strategiesUsed \subseteq targetStrategies

\* an attempt after the first one of a cell is about to run
AtRetry == phase = "strategic" /\ removePc = "attempt" /\ cellAttempts >= 1

\* C28: the retries of removeNumbersStrategically do not change the outcome
\* for a cell: an attempt after the first leaves the copy, the accumulator,
\* the solver's result and canRemove as the first attempt left them, retries
\* run only when the first attempt did not allow the removal, and the
\* decision taken after the inner loop is the first attempt's.
C28_RetriesChangeNothing ==
    /\ [][AtRetry =>
             /\ solveBoard' = solveBoard
             /\ strategiesUsed' = strategiesUsed
             /\ solveRet' = solveRet
             /\ canRemove' = canRemove]_vars
    /\ [](AtRetry => (~Allowed /\ ~canRemove))
    /\ []((phase = "strategic" /\ removePc = "decide") =>
             /\ canRemove = Allowed
             /\ cellAttempts = IF Allowed THEN 0 ELSE maxAttemptsPerCell)

\* three attempts were made on a cell that the first one had solved with a
\* tag outside the target set
C28_Witness ==
    /\ phase = "strategic"
    /\ removePc = "decide"
    /\ size = MaxSize
    /\ cellAttempts = maxAttemptsPerCell
    /\ solveRet
    /\ IsFull(solveBoard)
    /\ ~canRemove

\* C29: in the widget the given cells cannot be changed by the player: while
\* a game is played every cell that is non-zero in initialBoard holds the
\* same value in board, the selected cell (if any) is a cell of the board
\* that is not given, and every cell of board holds a value in 0..boardSize.
C29_GivenCellsImmutable ==
    phase = "playing" =>
        /\ BoardLen(widgetBoard) = size
        /\ BoardLen(initialBoard) = size
        /\ \A cell \in AllCells(size) :
              /\ initialBoard[cell[1]][cell[2]] # 0 =>
                    widgetBoard[cell[1]][cell[2]] = initialBoard[cell[1]][cell[2]]
              /\ widgetBoard[cell[1]][cell[2]] \in 0 .. size
        /\ selectedCell # <<>> =>
              /\ selectedCell \in AllCells(size)
              /\ initialBoard[selectedCell[1]][selectedCell[2]] = 0

\* the player has selected a free cell and filled one, next to a given cell
C29_Witness ==
    /\ phase = "playing"
    /\ size = MaxPlaySize
    /\ selectedCell # <<>>
    /\ \E c1 \in AllCells(size), c2 \in AllCells(size) :
          /\ initialBoard[c1[1]][c1[2]] = 0
          /\ widgetBoard[c1[1]][c1[2]] # 0
          /\ initialBoard[c2[1]][c2[2]] # 0

\* row i of b holds a non-zero value twice
RowHasDuplicate(b, i) ==
    \E j1 \in DOMAIN b[i], j2 \in DOMAIN b[i] :
        j1 # j2 /\ b[i][j1] # 0 /\ b[i][j1] = b[i][j2]

ColHasDuplicate(b, j) ==
    \E i1 \in DOMAIN b, i2 \in DOMAIN b :
        i1 # i2 /\ b[i1][j] # 0 /\ b[i1][j] = b[i2][j]

\* C30: in the widget errors matches board: it holds row-i exactly for the
\* rows with a repeated non-zero value and col-j exactly for such columns,
\* nothing else, it is empty exactly when isBoardValid(board), and it is
\* empty when a new game has just started.
C30_ErrorsMatchBoard ==
    /\ [](phase = "playing" =>
             /\ errors = {<<"row", i>> : i \in {x \in Range(size) :
                                                  RowHasDuplicate(widgetBoard, x)}}
                         \cup {<<"col", j>> : j \in {y \in Range(size) :
                                                  ColHasDuplicate(widgetBoard, y)}}
             /\ (errors = {}) <=> isBoardValid(widgetBoard))
    /\ [][phase = "removed" => (phase' = "playing" /\ errors' = {})]_vars

\* the player has made a row and a column invalid
C30_Witness ==
    /\ phase = "playing"
    /\ size = MaxPlaySize
    /\ \E i \in Range(size), j \in Range(size) :
          /\ <<"row", i>> \in errors
          /\ <<"col", j>> \in errors
    /\ ~isBoardValid(widgetBoard)

====
